---- MODULE Spec2Model ----
(***************************************************************************)
(* GeoDraw construction engine: the element store with its undo/redo       *)
(* history, and the canvas tool state machine that turns pointer events    *)
(* into committed elements.                                                *)
(*                                                                         *)
(* Coordinates are whole world units.  The zoom is kept in tenths (zoom =  *)
(* 10 is the factor 1.0), so "dist < T / zoom" is decided exactly in       *)
(* integer arithmetic by Within.  Indices of the history follow the source *)
(* (0-based); the TLA+ sequence position is historyIndex + 1.              *)
(***************************************************************************)
EXTENDS Integers, Sequences, FiniteSets, TLC

VARIABLES
    elements,        \* store: GeoElement[]
    history,         \* module-level history: GeoElement[][]
    historyIndex,    \* module-level pointer into history (0-based)
    canUndo,         \* store flag
    canRedo,         \* store flag
    selectedTool,    \* store: current tool
    isDrawing,       \* store: Pending (TRUE) / Idle (FALSE)
    tempData,        \* store: staged payload of the pending construction
    mousePos,        \* canvas: last pointer position in world units
    snapTarget,      \* canvas: snap target computed by the last pointer move
    zoom,            \* canvas: zoom factor in tenths
    lastClick,       \* label tool: module-level double-click memory
    nextId,          \* the next id generateId hands out
    selectedElementId,         \* store: id of the selected element
    draggedPointId,            \* canvas: id of the point being dragged
    draggedPointPos,           \* canvas: transient position of the drag
    dragOriginalPos,           \* canvas: position of the point at pointer-down
    previewIntersections,      \* canvas: intersection candidates of the hover
    hoveredIntersectionIndex,  \* canvas: index of the highlighted candidate
    pushes,          \* ghost: number of pushToHistory calls so far
    dropped,         \* ghost: number of history.shift() calls so far
    lastOp,          \* ghost: store calls made by the last handler
    log,             \* ghost: the last two operations that wrote elements
    staged,          \* ghost: tool and collection of the open clean staging
    script           \* scenario position of the scripted specifications

vars == <<elements, history, historyIndex, canUndo, canRedo, selectedTool,
          isDrawing, tempData, mousePos, snapTarget, zoom, lastClick, nextId,
          selectedElementId, draggedPointId, draggedPointPos, dragOriginalPos,
          previewIntersections, hoveredIntersectionIndex,
          pushes, dropped, lastOp, log, staged, script>>

histVars == <<elements, history, historyIndex, canUndo, canRedo, pushes, dropped>>
consVars == <<isDrawing, tempData>>
mouseVars == <<mousePos, snapTarget>>
dragVars == <<draggedPointId, draggedPointPos, dragOriginalPos>>
hoverVars == <<previewIntersections, hoveredIntersectionIndex>>
pointerVars == <<mouseVars, selectedElementId, dragVars, hoverVars>>

-----------------------------------------------------------------------------
(* Bounds of the model *)

MaxIds == 4          \* generateId is called at most this many times
MaxPushes == 2       \* pushToHistory is called at most this many times in Spec
MaxZoom == 11        \* largest zoom (tenths) the wheel reaches in the model
MinZoom == 10        \* smallest zoom (tenths) the wheel reaches in the model
MaxK == 51           \* largest K of the scripted run of K commits and K undos
WarmUp == 48         \* commits made before the free run at the history limit

(* the ids a specification may hand out: its own number where the scenario
   starts from a drawn scene, MaxIds otherwise *)
IdLimit == IF "ids" \in DOMAIN script THEN script.ids ELSE MaxIds

(* Program constants *)
HistoryLimit == 50
SnapRadius == 15

NoId == 0            \* JavaScript undefined in an id position
Undefined == [type |-> "undefined"]
NoLabel == ""        \* label absent / undefined
NoIndex == 0         \* JavaScript null in an index position (indices from 1)

Tools == {"select", "label", "point", "line", "circle",
          "perpendicular_bisector", "perpendicular_line", "angle_bisector",
          "intersect"}

MousePositions == {<<0, 0>>, <<20, 0>>}
ToolPositions == {<<0, 0>>, <<30, 0>>, <<0, 40>>}

-----------------------------------------------------------------------------
(* Geometry data model *)

Point(id, x, y, fixed) ==
    [id |-> id, type |-> "point", x |-> x, y |-> y, isFixed |-> fixed,
     label |-> NoLabel]

Line(id, a, b) ==
    [id |-> id, type |-> "line", p1Id |-> a, p2Id |-> b, infinite |-> FALSE]

Circle(id, c, r) ==
    [id |-> id, type |-> "circle", centerId |-> c, radiusPointId |-> r]

PerpendicularBisector(id, a, b) ==
    [id |-> id, type |-> "perpendicular_bisector", p1Id |-> a, p2Id |-> b]

PerpendicularLine(id, p, ref) ==
    [id |-> id, type |-> "perpendicular_line", pointId |-> p,
     referenceLineId |-> ref]

AngleBisector(id, v, a, b) ==
    [id |-> id, type |-> "angle_bisector", vertexId |-> v, p1Id |-> a,
     p2Id |-> b]

IsPoint(el) == el.type = "point"

Min(a, b) == IF a < b THEN a ELSE b

(* dist((0,0),(dx,dy)) < (t10 / 10) / (z / 10), that is dist * z < t10,
   decided on integers *)
Within(dx, dy, t10, z) ==
    dx * dx + dy * dy <= ((t10 * t10 - 1) \div (z * z))

Dist2(el, x, y) == (el.x - x) * (el.x - x) + (el.y - y) * (el.y - y)

Pos(x, y) == [x |-> x, y |-> y]

(* Math.round(v * 100) / 100 on a whole number of world units *)
Round100(v) == ((2 * (v * 100) + 1) \div 2) \div 100

MinOf(S) == CHOOSE i \in S : \A j \in S : i <= j

-----------------------------------------------------------------------------
(* History manager *)

(* pushToHistory without "history = history.slice(0, historyIndex + 1)" *)
PushToHistoryKeepsRedo(h, i, els) ==
    LET pushed == Append(h, els)
    IN  IF Len(pushed) > HistoryLimit
        THEN [history |-> Tail(pushed), historyIndex |-> i, dropped |-> 1]
        ELSE [history |-> pushed, historyIndex |-> i + 1, dropped |-> 0]

(* pushToHistory with "history.slice(historyIndex)" for the slice *)
PushToHistorySliceFromPointer(h, i, els) ==
    LET pushed == Append(SubSeq(h, i + 1, Len(h)), els)
    IN  IF Len(pushed) > HistoryLimit
        THEN [history |-> Tail(pushed), historyIndex |-> i, dropped |-> 1]
        ELSE [history |-> pushed, historyIndex |-> i + 1, dropped |-> 0]

(* pushToHistory without the limit of 50 *)
PushToHistoryNoLimit(h, i, els) ==
    [history |-> Append(SubSeq(h, 1, i + 1), els), historyIndex |-> i + 1,
     dropped |-> 0]

PushToHistory(h, i, els) ==
    LET pushed == Append(SubSeq(h, 1, i + 1), els)
    IN  IF Len(pushed) > HistoryLimit
        THEN [history |-> Tail(pushed), historyIndex |-> i, dropped |-> 1]
        ELSE [history |-> pushed, historyIndex |-> i + 1, dropped |-> 0]

Snapshot(i) == history[i + 1]

(* The ghost variables lastOp, log and staged are recorded only under the
   specifications that watch them *)
Watch(name) == name \in script.watch

(* ghost: the handler that ran and the store calls it made *)
Did(calls) == lastOp' = IF Watch("lastOp") THEN calls ELSE <<>>

(* ghost log: the last two operations that wrote the element collection; a
   batch and an undo are logged with the collection they found *)
Logged(op, moved) ==
    LET e == [op |-> op, moved |-> moved,
              before |-> IF op \in {"addElements", "undo"}
                         THEN elements ELSE <<>>]
    IN  IF ~Watch("log") THEN log
        ELSE IF Len(log) < 2 THEN Append(log, e) ELSE <<log[2], e>>

CommitOps == {"addElement", "addElements", "updateElement", "removeElement",
              "clearCanvas"}

(* set({elements}); pushToHistory(newElements); set({canUndo, canRedo}) *)
Commit(newElements, op) ==
    LET r == PushToHistory(history, historyIndex, newElements)
    IN  /\ pushes < script.cap
        /\ elements' = newElements
        /\ history' = r.history
        /\ historyIndex' = r.historyIndex
        /\ canUndo' = (r.historyIndex > 0)
        /\ canRedo' = (r.historyIndex < Len(r.history) - 1)
        /\ pushes' = pushes + 1
        /\ dropped' = dropped + r.dropped
        /\ log' = Logged(op, TRUE)

-----------------------------------------------------------------------------
(* Element store *)

addElement(element) == Commit(Append(elements, element), "addElement")

(* addElements pushing a snapshot for the first element and one for the rest *)
addElementsOneByOne(els) ==
    LET r1 == PushToHistory(history, historyIndex,
                            Append(elements, els[1]))
        r == IF Len(els) = 1 THEN r1
             ELSE PushToHistory(r1.history, r1.historyIndex, elements \o els)
    IN  /\ pushes < script.cap
        /\ elements' = elements \o els
        /\ history' = r.history
        /\ historyIndex' = r.historyIndex
        /\ canUndo' = (r.historyIndex > 0)
        /\ canRedo' = (r.historyIndex < Len(r.history) - 1)
        /\ pushes' = pushes + (IF Len(els) = 1 THEN 1 ELSE 2)
        /\ dropped' = dropped + r.dropped
        /\ log' = Logged("addElements", TRUE)

addElements(els) == Commit(elements \o els, "addElements")

(* { ...el, ...updates } *)
Merge(el, updates) ==
    [k \in DOMAIN el \cup DOMAIN updates |->
        IF k \in DOMAIN updates THEN updates[k] ELSE el[k]]

UpdatedElements(els, id, updates) ==
    [i \in 1..Len(els) |->
        IF els[i].id # id THEN els[i]
        ELSE IF els[i].type \in {"point", "line", "circle"}
             THEN Merge(els[i], updates)
             ELSE els[i]]

(* updateElement assigning into the element object, which the snapshots
   holding that element share *)
updateElementInPlace(id, updates) ==
    LET written == [i \in 1..Len(history) |->
                       UpdatedElements(history[i], id, updates)]
        r == PushToHistory(written, historyIndex,
                           UpdatedElements(elements, id, updates))
    IN  /\ pushes < script.cap
        /\ elements' = UpdatedElements(elements, id, updates)
        /\ history' = r.history
        /\ historyIndex' = r.historyIndex
        /\ canUndo' = (r.historyIndex > 0)
        /\ canRedo' = (r.historyIndex < Len(r.history) - 1)
        /\ pushes' = pushes + 1
        /\ dropped' = dropped + r.dropped
        /\ log' = Logged("updateElement", TRUE)

updateElement(id, updates) ==
    Commit(UpdatedElements(elements, id, updates), "updateElement")

(* removeElement taking along the elements that reference the removed id *)
RemovedElementsCascade(els, id) ==
    SelectSeq(els, LAMBDA el :
        /\ el.id # id
        /\ \A k \in DOMAIN el \cap {"p1Id", "p2Id", "centerId",
                                    "radiusPointId", "pointId",
                                    "referenceLineId", "vertexId"} :
               el[k] # id)

RemovedElements(els, id) == SelectSeq(els, LAMBDA el : el.id # id)

removeElement(id) == Commit(RemovedElements(elements, id), "removeElement")

clearCanvas == Commit(<<>>, "clearCanvas")

startConstruction(data) ==
    /\ isDrawing' = TRUE
    /\ tempData' = data

completeConstruction ==
    /\ isDrawing' = FALSE
    /\ tempData' = Undefined

(* undo stopping one snapshot above the first *)
UndoMovesAboveOne == historyIndex > 1

UndoMoves == historyIndex > 0

(* undo writing the two flags from the pointer it found *)
undoFlagsFromOldPointer ==
    /\ log' = Logged("undo", UndoMoves)
    /\ UNCHANGED <<history, pushes, dropped>>
    /\ IF UndoMoves
       THEN /\ historyIndex' = historyIndex - 1
            /\ elements' = Snapshot(historyIndex - 1)
            /\ canUndo' = (historyIndex > 0)
            /\ canRedo' = (historyIndex < Len(history) - 1)
       ELSE UNCHANGED <<historyIndex, elements, canUndo, canRedo>>

undo ==
    /\ log' = Logged("undo", UndoMoves)
    /\ UNCHANGED <<history, pushes, dropped>>
    /\ IF UndoMoves
       THEN /\ historyIndex' = historyIndex - 1
            /\ elements' = Snapshot(historyIndex - 1)
            /\ canUndo' = (historyIndex - 1 > 0)
            /\ canRedo' = (historyIndex - 1 < Len(history) - 1)
       ELSE UNCHANGED <<historyIndex, elements, canUndo, canRedo>>

(* redo stopping one snapshot below the last *)
RedoMovesBelowLast == historyIndex < Len(history) - 2

RedoMoves == historyIndex < Len(history) - 1

redo ==
    /\ log' = Logged("redo", RedoMoves)
    /\ UNCHANGED <<history, pushes, dropped>>
    /\ IF RedoMoves
       THEN /\ historyIndex' = historyIndex + 1
            /\ elements' = Snapshot(historyIndex + 1)
            /\ canUndo' = (historyIndex + 1 > 0)
            /\ canRedo' = (historyIndex + 1 < Len(history) - 1)
       ELSE UNCHANGED <<historyIndex, elements, canUndo, canRedo>>

-----------------------------------------------------------------------------
(* Canvas helpers *)

(* elements.find(el => el.type === 'point' && hypot(..) < epsilon) *)
findExistingPoint(els, x, y, t10, z) ==
    LET S == {i \in 1..Len(els) :
                 /\ IsPoint(els[i])
                 /\ Within(els[i].x - x, els[i].y - y, t10, z)}
    IN  IF S = {} THEN Undefined ELSE els[MinOf(S)]

(* first point within SNAP_RADIUS / zoom, in collection order *)
findSnapTarget(mouse, els, z) ==
    LET p == findExistingPoint(els, mouse.x, mouse.y, SnapRadius * 10, z)
    IN  IF p = Undefined THEN Undefined ELSE Pos(p.x, p.y)

(* the loop "dist < threshold && dist < minDist" of the tool handlers:
   the nearest point within the threshold, the earliest one on a tie *)
closestPoint(els, x, y, t10, z) ==
    LET S == {i \in 1..Len(els) :
                 /\ IsPoint(els[i])
                 /\ Within(els[i].x - x, els[i].y - y, t10, z)}
        best == {i \in S : \A j \in S :
                    \/ Dist2(els[j], x, y) > Dist2(els[i], x, y)
                    \/ (Dist2(els[j], x, y) = Dist2(els[i], x, y) /\ i <= j)}
    IN  IF S = {} THEN Undefined ELSE els[MinOf(best)]

(* const pos = snapTarget || rounded mousePos *)
ClickPos ==
    IF snapTarget # Undefined THEN snapTarget
    ELSE Pos(Round100(mousePos.x), Round100(mousePos.y))

EmptyPayload ==
    [type |-> "payload", p1Id |-> NoId, p1 |-> Undefined, p1IsNew |-> FALSE,
     centerId |-> NoId, center |-> Undefined, centerIsNew |-> FALSE,
     vertex |-> Undefined, selectedPoint |-> Undefined,
     selectedLine |-> Undefined]

Payload(fields) == Merge(EmptyPayload, fields)

StagedNone == [tool |-> "none", phase |-> "none", n |-> 0, before |-> <<>>]

(* ghost: the staging monitor after a handler that wrote nothing *)
StagedKept == staged' = staged

(* ghost: the staging monitor after a handler that replaced or discarded the
   pending payload without writing the collection *)
StagedClosed ==
    staged' = IF staged.phase = "open" THEN StagedNone ELSE staged

(* ghost: the staging monitor after an operation other than a line/circle
   click wrote the collection or touched the pending payload *)
StagedBroken(op) ==
    staged' = IF op = "undo" /\ staged.phase = "committed"
              THEN [staged EXCEPT !.phase = "undone"]
              ELSE StagedNone

-----------------------------------------------------------------------------
(* Pointer and keyboard handlers of the canvas *)

(* newZoom = min(max(zoom + delta, 0.1), 10), delta = +-0.1 *)
handleWheel(delta) ==
    LET newZoom == Min(IF zoom + delta > 1 THEN zoom + delta ELSE 1, 100)
    IN  /\ newZoom >= MinZoom
        /\ newZoom <= MaxZoom
        /\ newZoom # zoom
        /\ zoom' = newZoom
        /\ Did(<<"wheel">>)
        /\ StagedKept
        /\ UNCHANGED <<histVars, consVars, selectedTool, pointerVars, lastClick,
                       nextId, log, script>>

(* the effect on selectedTool: the candidates of the intersect tool are
   dropped when another tool is selected *)
clearIntersectionSelection(tool) ==
    IF tool # "intersect"
    THEN previewIntersections' = <<>> /\ hoveredIntersectionIndex' = NoIndex
    ELSE UNCHANGED hoverVars

setSelectedTool(tool) ==
    /\ tool # selectedTool
    /\ selectedTool' = tool
    /\ clearIntersectionSelection(tool)
    /\ Did(<<"setSelectedTool">>)
    /\ StagedKept
    /\ UNCHANGED <<histVars, consVars, mouseVars, selectedElementId, dragVars,
                   zoom, lastClick, nextId, log, script>>

UndoCall ==
    /\ undo
    /\ Did(<<"undo">>)
    /\ StagedBroken("undo")
    /\ UNCHANGED <<consVars, selectedTool, pointerVars, zoom, lastClick, nextId>>

KeyUndo == UndoCall /\ UNCHANGED script

KeyRedo ==
    /\ redo
    /\ Did(<<"redo">>)
    /\ StagedBroken("redo")
    /\ UNCHANGED <<consVars, selectedTool, pointerVars, zoom, lastClick, nextId,
                   script>>

(* the point tool leaving the new point unfixed *)
PointClickUnfixed ==
    LET pos == ClickPos
        existingPoint == findExistingPoint(elements, pos.x, pos.y, 20, zoom)
    IN  /\ selectedTool = "point"
        /\ UNCHANGED <<consVars, selectedTool, pointerVars, zoom, lastClick,
                       script>>
        /\ IF existingPoint # Undefined
           THEN /\ Did(<<"point">>)
                /\ StagedKept
                /\ UNCHANGED <<histVars, nextId, log>>
           ELSE /\ nextId <= IdLimit
                /\ addElement(Point(nextId, pos.x, pos.y, FALSE))
                /\ nextId' = nextId + 1
                /\ Did(<<"point", "addElement">>)
                /\ StagedBroken("addElement")

(* the point tool adding a point without looking for one already there *)
PointClickNoLookup ==
    LET pos == ClickPos
    IN  /\ selectedTool = "point"
        /\ UNCHANGED <<consVars, selectedTool, pointerVars, zoom, lastClick,
                       script>>
        /\ nextId <= IdLimit
        /\ addElement(Point(nextId, pos.x, pos.y, TRUE))
        /\ nextId' = nextId + 1
        /\ Did(<<"point", "addElement">>)
        /\ StagedBroken("addElement")

(* point tool *)
PointClick ==
    LET pos == ClickPos
        existingPoint == findExistingPoint(elements, pos.x, pos.y, 20, zoom)
    IN  /\ selectedTool = "point"
        /\ UNCHANGED <<consVars, selectedTool, pointerVars, zoom, lastClick,
                       script>>
        /\ IF existingPoint # Undefined
           THEN /\ Did(<<"point">>)
                /\ StagedKept
                /\ UNCHANGED <<histVars, nextId, log>>
           ELSE /\ nextId <= IdLimit
                /\ addElement(Point(nextId, pos.x, pos.y, TRUE))
                /\ nextId' = nextId + 1
                /\ Did(<<"point", "addElement">>)
                /\ StagedBroken("addElement")

(* the first click adding a new start point to the collection at once *)
StageClickAddsPoint(tool, idField, ptField, newField) ==
    LET pos == ClickPos
        found == findExistingPoint(elements, pos.x, pos.y, 20, zoom)
        isNewPoint == (found = Undefined)
        startPoint == IF isNewPoint
                      THEN Point(nextId, pos.x, pos.y, TRUE) ELSE found
    IN  /\ selectedTool = tool
        /\ ~isDrawing
        /\ isNewPoint => nextId <= IdLimit
        /\ nextId' = IF isNewPoint THEN nextId + 1 ELSE nextId
        /\ startConstruction(Payload(
               [k \in {idField, ptField, newField} |->
                   IF k = idField THEN startPoint.id
                   ELSE IF k = ptField THEN startPoint ELSE isNewPoint]))
        /\ Did(<<tool, "startConstruction">>)
        /\ staged' = StagedNone
        /\ IF isNewPoint
           THEN addElement(startPoint) /\ UNCHANGED log
           ELSE UNCHANGED <<histVars, log>>
        /\ UNCHANGED <<selectedTool, pointerVars, zoom, lastClick, script>>

(* line tool and circle tool: the two branches differ only in the names of
   the payload fields and in the element built by the second click *)
StageClick(tool, idField, ptField, newField) ==
    LET pos == ClickPos
        found == findExistingPoint(elements, pos.x, pos.y, 20, zoom)
        isNewPoint == (found = Undefined)
        startPoint == IF isNewPoint
                      THEN Point(nextId, pos.x, pos.y, TRUE) ELSE found
    IN  /\ selectedTool = tool
        /\ ~isDrawing
        /\ isNewPoint => nextId <= IdLimit
        /\ nextId' = IF isNewPoint THEN nextId + 1 ELSE nextId
        /\ startConstruction(Payload(
               [k \in {idField, ptField, newField} |->
                   IF k = idField THEN startPoint.id
                   ELSE IF k = ptField THEN startPoint ELSE isNewPoint]))
        /\ Did(<<tool, "startConstruction">>)
        /\ staged' = IF Watch("staged")
                     THEN [tool |-> tool, phase |-> "open", n |-> 0,
                           before |-> elements]
                     ELSE StagedNone
        /\ UNCHANGED <<histVars, selectedTool, pointerVars, zoom, lastClick,
                       log, script>>

Built(tool, id, a, b) ==
    IF tool = "line" THEN Line(id, a, b) ELSE Circle(id, a, b)

(* the second click giving the new element the id of its new end point *)
CommitClickReusesId(tool, ptField, newField) ==
    LET pos == ClickPos
        found == findExistingPoint(elements, pos.x, pos.y, 20, zoom)
        p1 == tempData[ptField]
        p1IsNew == tempData[newField]
        isNewEndPoint == (found = Undefined)
        endPoint == IF isNewEndPoint
                    THEN Point(nextId, pos.x, pos.y, TRUE) ELSE found
        idsUsed == (IF isNewEndPoint THEN 1 ELSE 0)
                   + (IF p1 # Undefined THEN 1 ELSE 0)
        lineId == nextId
        elementsToAdd ==
            (IF p1IsNew THEN <<p1>> ELSE <<>>)
            \o (IF isNewEndPoint THEN <<endPoint>> ELSE <<>>)
            \o <<Built(tool, lineId, p1.id, endPoint.id)>>
    IN  /\ selectedTool = tool
        /\ isDrawing
        /\ nextId + idsUsed - 1 <= IdLimit
        /\ nextId' = nextId + idsUsed
        /\ completeConstruction
        /\ UNCHANGED <<selectedTool, pointerVars, zoom, lastClick, script>>
        /\ IF p1 # Undefined
           THEN /\ addElements(elementsToAdd)
                /\ Did(<<tool, "addElements", "completeConstruction">>)
                /\ staged' = IF staged.tool = tool /\ staged.phase = "open"
                             THEN [staged EXCEPT
                                      !.phase = "committed",
                                      !.n = Len(elementsToAdd) - 1]
                             ELSE StagedNone
           ELSE /\ Did(<<tool, "completeConstruction">>)
                /\ staged' = StagedNone
                /\ UNCHANGED <<histVars, log>>

CommitClick(tool, ptField, newField) ==
    LET pos == ClickPos
        found == findExistingPoint(elements, pos.x, pos.y, 20, zoom)
        p1 == tempData[ptField]
        p1IsNew == tempData[newField]
        isNewEndPoint == (found = Undefined)
        endPoint == IF isNewEndPoint
                    THEN Point(nextId, pos.x, pos.y, TRUE) ELSE found
        idsUsed == (IF isNewEndPoint THEN 1 ELSE 0)
                   + (IF p1 # Undefined THEN 1 ELSE 0)
        lineId == IF isNewEndPoint THEN nextId + 1 ELSE nextId
        elementsToAdd ==
            (IF p1IsNew THEN <<p1>> ELSE <<>>)
            \o (IF isNewEndPoint THEN <<endPoint>> ELSE <<>>)
            \o <<Built(tool, lineId, p1.id, endPoint.id)>>
    IN  /\ selectedTool = tool
        /\ isDrawing
        /\ nextId + idsUsed - 1 <= IdLimit
        /\ nextId' = nextId + idsUsed
        /\ completeConstruction
        /\ UNCHANGED <<selectedTool, pointerVars, zoom, lastClick, script>>
        /\ IF p1 # Undefined
           THEN /\ addElements(elementsToAdd)
                /\ Did(<<tool, "addElements", "completeConstruction">>)
                /\ staged' = IF staged.tool = tool /\ staged.phase = "open"
                             THEN [staged EXCEPT
                                      !.phase = "committed",
                                      !.n = Len(elementsToAdd) - 1]
                             ELSE StagedNone
           ELSE /\ Did(<<tool, "completeConstruction">>)
                /\ staged' = StagedNone
                /\ UNCHANGED <<histVars, log>>

LineClick ==
    \/ StageClick("line", "p1Id", "p1", "p1IsNew")
    \/ CommitClick("line", "p1", "p1IsNew")

CircleClick ==
    \/ StageClick("circle", "centerId", "center", "centerIsNew")
    \/ CommitClick("circle", "center", "centerIsNew")

-----------------------------------------------------------------------------
(* Label tool *)

Letters == <<"A", "B", "C", "D", "E", "F", "G", "H", "I", "J", "K", "L", "M",
             "N", "O", "P", "Q", "R", "S", "T", "U", "V", "W", "X", "Y", "Z">>

usedLabels(els) ==
    {els[i].label : i \in {j \in 1..Len(els) :
                              IsPoint(els[j]) /\ els[j].label # NoLabel}}

(* first letter of A..Z not in use, NoLabel (null) when all are in use *)
getNextLabel(used) ==
    LET free == {i \in 1..26 : Letters[i] \notin used}
    IN  IF free = {} THEN NoLabel ELSE Letters[MinOf(free)]

Relabelled(els, id, label) ==
    [i \in 1..Len(els) |->
        IF els[i].id = id THEN Merge(els[i], [label |-> label]) ELSE els[i]]

(* quick: the click comes less than 350 ms after the remembered one.  The
   handler derives its zoom from canvas.width / rect.width, which the resize
   handler keeps at 1, so the threshold is 12 world units at every zoom. *)
handleLabelClick(quick) ==
    LET closest == closestPoint(elements, mousePos.x, mousePos.y, 120, 10)
        label == getNextLabel(usedLabels(elements))
    IN  /\ selectedTool = "label"
        /\ UNCHANGED <<history, historyIndex, canUndo, canRedo, pushes,
                       dropped, consVars, selectedTool, pointerVars, zoom,
                       nextId, script>>
        /\ IF closest = Undefined
           THEN /\ Did(<<"label">>)
                /\ StagedKept
                /\ UNCHANGED <<elements, lastClick, log>>
           ELSE IF lastClick # NoId /\ lastClick = closest.id /\ quick
           THEN /\ elements' = Relabelled(elements, closest.id, NoLabel)
                /\ lastClick' = NoId
                /\ log' = Logged("label", TRUE)
                /\ Did(<<"label", "setState">>)
                /\ StagedBroken("label")
           ELSE IF closest.label = NoLabel
           THEN IF label = NoLabel
                THEN /\ Did(<<"label">>)
                     /\ StagedKept
                     /\ UNCHANGED <<elements, lastClick, log>>
                ELSE /\ elements' = Relabelled(elements, closest.id, label)
                     /\ lastClick' = closest.id
                     /\ log' = Logged("label", TRUE)
                     /\ Did(<<"label", "setState">>)
                     /\ StagedBroken("label")
           ELSE /\ lastClick' = closest.id
                /\ Did(<<"label">>)
                /\ StagedKept
                /\ UNCHANGED <<elements, log>>

-----------------------------------------------------------------------------
(* Store operations called directly through the external interface *)

ApiCall(op) ==
    /\ Did(<<"api", op>>)
    /\ StagedBroken(op)
    /\ UNCHANGED <<consVars, selectedTool, pointerVars, zoom, lastClick, nextId,
                   script>>

ApiRemoveElement(id) == removeElement(id) /\ ApiCall("removeElement")

ApiUpdateElement(id, updates) ==
    updateElement(id, updates) /\ ApiCall("updateElement")

ApiClearCanvas == clearCanvas /\ ApiCall("clearCanvas")

(* addElement of a point carrying a fresh id *)
ApiAddPoint ==
    /\ addElement(Point(nextId, nextId, 0, TRUE))
    /\ Did(<<"api", "addElement">>)
    /\ StagedBroken("addElement")
    /\ nextId' = nextId + 1
    /\ UNCHANGED <<consVars, selectedTool, pointerVars, zoom, lastClick, script>>

-----------------------------------------------------------------------------
(* Perpendicular bisector tool *)

(* the duplicate test comparing the pair in the stored order only *)
bisectorExistsSameOrder(els, p1Id, p2Id) ==
    \E i \in 1..Len(els) :
        /\ els[i].type = "perpendicular_bisector"
        /\ els[i].p1Id = p1Id
        /\ els[i].p2Id = p2Id

bisectorExists(els, p1Id, p2Id) ==
    \E i \in 1..Len(els) :
        /\ els[i].type = "perpendicular_bisector"
        /\ \/ (els[i].p1Id = p1Id /\ els[i].p2Id = p2Id)
           \/ (els[i].p1Id = p2Id /\ els[i].p2Id = p1Id)

handlePerpendicularBisectorClick ==
    LET pos == ClickPos
        closest == closestPoint(elements, pos.x, pos.y, 120, zoom)
        p1Id == tempData.p1Id
    IN  /\ selectedTool = "perpendicular_bisector"
        /\ UNCHANGED <<selectedTool, pointerVars, zoom, lastClick, script>>
        /\ IF closest = Undefined
           THEN /\ Did(<<"perpendicular_bisector">>)
                /\ StagedKept
                /\ UNCHANGED <<histVars, consVars, nextId, log>>
           ELSE IF ~isDrawing
           THEN /\ startConstruction(
                       Payload([p1Id |-> closest.id, p1 |-> closest]))
                /\ Did(<<"perpendicular_bisector", "startConstruction">>)
                /\ StagedClosed
                /\ UNCHANGED <<histVars, nextId, log>>
           ELSE IF p1Id = closest.id
           THEN /\ completeConstruction
                /\ Did(<<"perpendicular_bisector", "completeConstruction">>)
                /\ StagedClosed
                /\ UNCHANGED <<histVars, nextId, log>>
           ELSE IF bisectorExists(elements, p1Id, closest.id)
           THEN /\ completeConstruction
                /\ Did(<<"perpendicular_bisector", "bisectorExists",
                         "completeConstruction">>)
                /\ StagedClosed
                /\ UNCHANGED <<histVars, nextId, log>>
           ELSE /\ nextId <= IdLimit
                /\ addElement(PerpendicularBisector(nextId, p1Id, closest.id))
                /\ nextId' = nextId + 1
                /\ completeConstruction
                /\ Did(<<"perpendicular_bisector", "addElement",
                               "completeConstruction">>)
                /\ StagedBroken("addElement")

-----------------------------------------------------------------------------
(* Angle bisector tool *)

Cross(ax, ay, bx, by) == ax * by - ay * bx
Dot(ax, ay, bx, by) == ax * bx + ay * by

(* hypot(u1 + u2) < 1e-8 for the unit rays u1, u2 from the vertex (a ray of
   length <= 1e-8 counts as the zero vector).  On whole-unit coordinates the
   sum is that small exactly when both rays are zero or the rays are
   anti-parallel. *)
raysCancel(vertex, p1, p2) ==
    LET r1x == p1.x - vertex.x
        r1y == p1.y - vertex.y
        r2x == p2.x - vertex.x
        r2y == p2.y - vertex.y
        zero1 == (r1x = 0 /\ r1y = 0)
        zero2 == (r2x = 0 /\ r2y = 0)
    IN  IF zero1 \/ zero2 THEN zero1 /\ zero2
        ELSE Cross(r1x, r1y, r2x, r2y) = 0 /\ Dot(r1x, r1y, r2x, r2y) < 0

angleBisectorExists(els, vId, p1Id, p2Id) ==
    \E i \in 1..Len(els) :
        /\ els[i].type = "angle_bisector"
        /\ els[i].vertexId = vId
        /\ \/ (els[i].p1Id = p1Id /\ els[i].p2Id = p2Id)
           \/ (els[i].p1Id = p2Id /\ els[i].p2Id = p1Id)

handleAngleBisectorClick ==
    LET pos == ClickPos
        closest == closestPoint(elements, pos.x, pos.y, 120, zoom)
        vertex == tempData.vertex
        p1 == tempData.p1
        cancel == /\ completeConstruction
                  /\ Did(<<"angle_bisector", "completeConstruction">>)
                  /\ StagedClosed
                  /\ UNCHANGED <<histVars, nextId, log>>
    IN  /\ selectedTool = "angle_bisector"
        /\ UNCHANGED <<selectedTool, pointerVars, zoom, lastClick, script>>
        /\ IF closest = Undefined
           THEN IF isDrawing
                THEN cancel
                ELSE /\ Did(<<"angle_bisector">>)
                     /\ StagedKept
                     /\ UNCHANGED <<histVars, consVars, nextId, log>>
           ELSE IF ~isDrawing
           THEN /\ startConstruction(Payload([vertex |-> closest]))
                /\ Did(<<"angle_bisector", "startConstruction">>)
                /\ StagedClosed
                /\ UNCHANGED <<histVars, nextId, log>>
           ELSE IF vertex # Undefined /\ p1 = Undefined /\ closest.id # vertex.id
           THEN /\ startConstruction(
                       Payload([vertex |-> vertex, p1 |-> closest]))
                /\ Did(<<"angle_bisector", "startConstruction">>)
                /\ StagedClosed
                /\ UNCHANGED <<histVars, nextId, log>>
           ELSE IF /\ vertex # Undefined
                   /\ p1 # Undefined
                   /\ closest.id # vertex.id
                   /\ closest.id # p1.id
           THEN IF \/ angleBisectorExists(elements, vertex.id, p1.id, closest.id)
                   \/ raysCancel(vertex, p1, closest)
                THEN cancel
                ELSE /\ nextId <= IdLimit
                     /\ addElement(AngleBisector(nextId, vertex.id, p1.id,
                                                 closest.id))
                     /\ nextId' = nextId + 1
                     /\ completeConstruction
                     /\ Did(<<"angle_bisector", "addElement",
                                    "completeConstruction">>)
                     /\ StagedBroken("addElement")
           ELSE cancel

-----------------------------------------------------------------------------
(* Perpendicular line tool *)

LineLike == {"line", "perpendicular_bisector", "perpendicular_line",
             "angle_bisector"}

Abs(v) == IF v < 0 THEN -v ELSE v

(* greatest common divisor of two naturals, 0 for (0, 0) *)
GCD(a, b) ==
    LET D == {d \in 1..(a + b) : a % d = 0 /\ b % d = 0}
    IN  IF D = {} THEN 0 ELSE CHOOSE d \in D : \A e \in D : e <= d

(* the direction (dx, dy) reduced to lowest terms; distances to a line
   depend only on the direction, not on its length *)
Reduced(dx, dy) ==
    LET g == GCD(Abs(dx), Abs(dy))
    IN  IF g = 0 THEN <<0, 0>> ELSE <<dx \div g, dy \div g>>

ISqrt(n) == CHOOSE r \in 0..n : r * r <= n /\ (r + 1) * (r + 1) > n

(* Math.hypot on whole numbers; exact when the value is whole, which holds
   for every two points the tools place on ToolPositions *)
Hypot(dx, dy) == ISqrt(dx * dx + dy * dy)

(* elements.find(e => e.id === id) as Point | undefined; an element that is
   not a point has no coordinates, every comparison on it fails, and the
   candidate is passed over exactly as for a missing point *)
(* a lookup that answers an absent id with a point at the origin *)
findPointOrOrigin(els, id) ==
    LET S == {i \in 1..Len(els) : els[i].id = id /\ IsPoint(els[i])}
    IN  IF S = {} THEN Point(id, 0, 0, TRUE) ELSE els[MinOf(S)]

findPoint(els, id) ==
    LET S == {i \in 1..Len(els) : els[i].id = id /\ IsPoint(els[i])}
    IN  IF S = {} THEN Undefined ELSE els[MinOf(S)]

findElement(els, id) ==
    LET S == {i \in 1..Len(els) : els[i].id = id}
    IN  IF S = {} THEN Undefined ELSE els[MinOf(S)]

NoHit == [ok |-> FALSE, n |-> 0, den |-> 1]

(* a candidate at distance n / sqrt(den) from the cursor; a direction of
   length zero gives NaN or Infinity in the source, which passes no test *)
Hit(n, den) == [ok |-> den > 0, n |-> Abs(n), den |-> den]

Rot(v) == <<-v[2], v[1]>>

BaseLines == {"line", "perpendicular_bisector", "angle_bisector"}

SamePlace(p, q) == p.x = q.x /\ p.y = q.y

(* a vector parallel to u1 + u2 for the unit rays u1 = r1 / l1, u2 = r2 / l2;
   a ray of length zero contributes the zero vector *)
raySum(r1x, r1y, r2x, r2y, l1, l2) ==
    IF l1 = 0 /\ l2 = 0 THEN <<0, 0>>
    ELSE IF l1 = 0 THEN <<r2x, r2y>>
    ELSE IF l2 = 0 THEN <<r1x, r1y>>
    ELSE <<r1x * l2 + r2x * l1, r1y * l2 + r2y * l1>>

unitRaySum(vertex, p1, p2) ==
    raySum(p1.x - vertex.x, p1.y - vertex.y, p2.x - vertex.x, p2.y - vertex.y,
           Hypot(p1.x - vertex.x, p1.y - vertex.y),
           Hypot(p2.x - vertex.x, p2.y - vertex.y))

(* direction of an angle bisector, the zero vector where the source passes
   the element over (vertex missing, or a ray of length zero) *)
bisectorDirection(vertex, p1, p2) ==
    IF vertex = Undefined THEN <<0, 0>>
    ELSE IF SamePlace(p1, vertex) \/ SamePlace(p2, vertex) THEN <<0, 0>>
    ELSE unitRaySum(vertex, p1, p2)

hitReduced(px, py, r, wx, wy) ==
    Hit(r[1] * (wx - px) + r[2] * (wy - py), r[1] * r[1] + r[2] * r[2])

(* distance from (wx, wy) to the line through (px, py) whose normal is n *)
hitNormal(px, py, n, wx, wy) == hitReduced(px, py, Reduced(n[1], n[2]), wx, wy)

(* distance from (wx, wy) to the line through (px, py) with direction d *)
hitDirection(px, py, d, wx, wy) == hitNormal(px, py, Rot(d), wx, wy)

endsOf(els, el) == <<findPoint(els, el.p1Id), findPoint(els, el.p2Id)>>

nestedEnds(els, refRefEl) ==
    IF refRefEl.type \in BaseLines THEN endsOf(els, refRefEl)
    ELSE <<Undefined, Undefined>>

(* refP1 and refP2 of the reference of a perpendicular line *)
referenceEnds(els, refEl) ==
    IF refEl.type \in BaseLines THEN endsOf(els, refEl)
    ELSE IF refEl.type = "perpendicular_line"
    THEN nestedEnds(els, findElement(els, refEl.referenceLineId))
    ELSE <<Undefined, Undefined>>

(* the direction of the element referenced by the reference line of a
   perpendicular line (nested case of the hit test) *)
nestedDirection(refRefEl, vertex, p1, p2) ==
    IF refRefEl.type = "perpendicular_bisector"
    THEN <<-(p2.y - p1.y), p2.x - p1.x>>
    ELSE IF refRefEl.type = "angle_bisector" /\ vertex # Undefined
    THEN unitRaySum(vertex, p1, p2)
    ELSE <<p2.x - p1.x, p2.y - p1.y>>

nestedVertex(els, refRefEl) ==
    IF refRefEl.type = "angle_bisector"
    THEN findPoint(els, refRefEl.vertexId) ELSE Undefined

nestedReferenceDirection(els, refRefEl, p1, p2) ==
    Rot(nestedDirection(refRefEl, nestedVertex(els, refRefEl), p1, p2))

(* (refDx, refDy): the direction of the reference, which is the normal of
   the perpendicular line; the zero vector where the source passes the
   element over *)
referenceDirection(els, refEl, p1, p2) ==
    IF SamePlace(p1, p2) THEN <<0, 0>>
    ELSE IF refEl.type = "perpendicular_bisector"
    THEN <<-(p2.y - p1.y), p2.x - p1.x>>
    ELSE IF refEl.type = "angle_bisector"
    THEN bisectorDirection(findPoint(els, refEl.vertexId), p1, p2)
    ELSE IF refEl.type = "perpendicular_line"
    THEN nestedReferenceDirection(
             els, findElement(els, refEl.referenceLineId), p1, p2)
    ELSE <<p2.x - p1.x, p2.y - p1.y>>

perpendicularLineHitEnds(els, point, refEl, ends, wx, wy) ==
    IF ends[1] = Undefined \/ ends[2] = Undefined THEN NoHit
    ELSE hitNormal(point.x, point.y,
                   referenceDirection(els, refEl, ends[1], ends[2]), wx, wy)

perpendicularLineHitRef(els, point, refEl, wx, wy) ==
    IF point = Undefined \/ refEl = Undefined THEN NoHit
    ELSE perpendicularLineHitEnds(els, point, refEl,
                                  referenceEnds(els, refEl), wx, wy)

perpendicularLineHit(els, el, wx, wy) ==
    perpendicularLineHitRef(els, findPoint(els, el.pointId),
                            findElement(els, el.referenceLineId), wx, wy)

angleBisectorHitFrom(vertex, p1, p2, wx, wy) ==
    IF vertex = Undefined \/ p1 = Undefined \/ p2 = Undefined THEN NoHit
    ELSE hitDirection(vertex.x, vertex.y, bisectorDirection(vertex, p1, p2),
                      wx, wy)

angleBisectorHit(els, el, wx, wy) ==
    angleBisectorHitFrom(findPoint(els, el.vertexId), findPoint(els, el.p1Id),
                         findPoint(els, el.p2Id), wx, wy)

(* the perpendicular bisector: through the midpoint, normal to the segment;
   doubled to keep the midpoint whole *)
bisectorHit(p1, p2, r, wx, wy) ==
    Hit(r[1] * (2 * wx - p1.x - p2.x) + r[2] * (2 * wy - p1.y - p2.y),
        4 * (r[1] * r[1] + r[2] * r[2]))

segmentHitFrom(el, p1, p2, wx, wy) ==
    IF p1 = Undefined \/ p2 = Undefined THEN NoHit
    ELSE IF el.type = "perpendicular_bisector"
    THEN bisectorHit(p1, p2, Reduced(p2.x - p1.x, p2.y - p1.y), wx, wy)
    ELSE hitDirection(p1.x, p1.y, <<p2.x - p1.x, p2.y - p1.y>>, wx, wy)

segmentHit(els, el, wx, wy) ==
    segmentHitFrom(el, findPoint(els, el.p1Id), findPoint(els, el.p2Id),
                   wx, wy)

lineHit(els, el, wx, wy) ==
    IF el.type = "perpendicular_line" THEN perpendicularLineHit(els, el, wx, wy)
    ELSE IF el.type = "angle_bisector" THEN angleBisectorHit(els, el, wx, wy)
    ELSE segmentHit(els, el, wx, wy)

(* n / sqrt(den) < (t10 / 10) / (z / 10), with t10 : z in lowest terms *)
HitWithinReduced(h, t, z) ==
    h.ok /\ h.n * h.n <= ((h.den * t * t - 1) \div (z * z))

HitWithin(h, t10, z) ==
    HitWithinReduced(h, t10 \div GCD(t10, z), z \div GCD(t10, z))

HitCloser(a, b) == a.n * a.n * b.den < b.n * b.n * a.den

(* the loop "dist < lineThreshold && dist < minLineDist" over the line-like
   elements: the nearest one within the threshold, the earliest on a tie *)
closestHit(els, hits, t10, z) ==
    LET S == {i \in 1..Len(els) : HitWithin(hits[i], t10, z)}
        best == {i \in S : \A j \in S :
                    \/ HitCloser(hits[i], hits[j])
                    \/ (~HitCloser(hits[j], hits[i]) /\ i <= j)}
    IN  IF S = {} THEN Undefined ELSE els[MinOf(best)]

closestLine(els, wx, wy, t10, z) ==
    closestHit(els,
               [i \in 1..Len(els) |->
                   IF els[i].type \in LineLike
                   THEN lineHit(els, els[i], wx, wy) ELSE NoHit],
               t10, z)

perpLineExists(els, pointId, refId) ==
    \E i \in 1..Len(els) :
        /\ els[i].type = "perpendicular_line"
        /\ els[i].pointId = pointId
        /\ els[i].referenceLineId = refId

perpendicularLineClick(cPoint, cLine) ==
    LET selectedPoint == tempData.selectedPoint
        selectedLine == tempData.selectedLine
        case1 == selectedPoint # Undefined /\ cLine # Undefined
                 /\ selectedLine = Undefined
        case2 == selectedLine # Undefined /\ cPoint # Undefined
                 /\ selectedPoint = Undefined
        pointId == IF case1 THEN selectedPoint.id ELSE cPoint.id
        refId == IF case1 THEN cLine.id ELSE selectedLine.id
    IN  /\ selectedTool = "perpendicular_line"
        /\ UNCHANGED <<selectedTool, pointerVars, zoom, lastClick, script>>
        /\ IF ~isDrawing
           THEN IF cPoint # Undefined \/ cLine # Undefined
                THEN /\ startConstruction(
                            IF cPoint # Undefined
                            THEN Payload([selectedPoint |-> cPoint])
                            ELSE Payload([selectedLine |-> cLine]))
                     /\ Did(<<"perpendicular_line", "startConstruction">>)
                     /\ StagedClosed
                     /\ UNCHANGED <<histVars, nextId, log>>
                ELSE /\ Did(<<"perpendicular_line">>)
                     /\ StagedKept
                     /\ UNCHANGED <<histVars, consVars, nextId, log>>
           ELSE IF (case1 \/ case2) /\ ~perpLineExists(elements, pointId, refId)
           THEN /\ nextId <= IdLimit
                /\ addElement(PerpendicularLine(nextId, pointId, refId))
                /\ nextId' = nextId + 1
                /\ completeConstruction
                /\ Did(<<"perpendicular_line", "addElement",
                         "completeConstruction">>)
                /\ StagedBroken("addElement")
           ELSE /\ completeConstruction
                /\ Did(<<"perpendicular_line", "completeConstruction">>)
                /\ StagedClosed
                /\ UNCHANGED <<histVars, nextId, log>>

handlePerpendicularLineClick ==
    perpendicularLineClick(
        closestPoint(elements, ClickPos.x, ClickPos.y, 120, zoom),
        closestLine(elements, ClickPos.x, ClickPos.y, 100, zoom))

-----------------------------------------------------------------------------
(* Select / move tool *)

(* the hit test of pointer-down taking derived points too *)
findClickedPointAny(els, mouse, z) ==
    LET S == {i \in 1..Len(els) :
                 /\ IsPoint(els[i])
                 /\ Within(els[i].x - mouse.x, els[i].y - mouse.y, 100, z)}
    IN  IF S = {} THEN Undefined ELSE els[MinOf(S)]

(* the first fixed point within 10 / zoom of the cursor *)
findClickedPoint(els, mouse, z) ==
    LET S == {i \in 1..Len(els) :
                 /\ IsPoint(els[i])
                 /\ els[i].isFixed
                 /\ Within(els[i].x - mouse.x, els[i].y - mouse.y, 100, z)}
    IN  IF S = {} THEN Undefined ELSE els[MinOf(S)]

(* |sqrt(a) - sqrt(b)| < t for whole a, b and t = tn / td:
   a + b - t^2 < 2 sqrt(a b) *)
RootsWithin(a, b, tn, td) ==
    LET lhs == (a + b) * td * td - tn * tn
    IN  lhs < 0 \/ lhs * lhs < 4 * a * b * td * td * td * td

circleClicked(center, radiusPoint, mouse, z) ==
    /\ center # Undefined
    /\ radiusPoint # Undefined
    /\ RootsWithin(Dist2(center, mouse.x, mouse.y),
                   Dist2(center, radiusPoint.x, radiusPoint.y),
                   100 \div GCD(100, z), z \div GCD(100, z))

(* circles first, then perpendicular bisectors, then lines; within each kind
   the first element whose curve passes within 10 / zoom of the cursor *)
findClickedElement(els, mouse, z) ==
    LET circles == {i \in 1..Len(els) :
                       /\ els[i].type = "circle"
                       /\ circleClicked(findPoint(els, els[i].centerId),
                                        findPoint(els, els[i].radiusPointId),
                                        mouse, z)}
        segments(type) ==
            {i \in 1..Len(els) :
                /\ els[i].type = type
                /\ HitWithin(segmentHit(els, els[i], mouse.x, mouse.y),
                             100, z)}
    IN  IF circles # {} THEN els[MinOf(circles)]
        ELSE IF segments("perpendicular_bisector") # {}
        THEN els[MinOf(segments("perpendicular_bisector"))]
        ELSE IF segments("line") # {} THEN els[MinOf(segments("line"))]
        ELSE Undefined


(* Intersections of two elements *)
(* lineLineIntersection with the parameter of the second line applied to
   the first *)
lineLineFromOtherParameter(p1, p2, p3, p4) ==
    LET d1x == p2.x - p1.x
        d1y == p2.y - p1.y
        d2x == p4.x - p3.x
        d2y == p4.y - p3.y
        denom == d1x * d2y - d1y * d2x
        tnum == (p3.x - p1.x) * d1y - (p3.y - p1.y) * d1x
        n == IF denom < 0 THEN -tnum ELSE tnum
        d == Abs(denom)
    IN  IF denom = 0 THEN <<>>
        ELSE << [x |-> p1.x + (n * d1x) \div d,
                 y |-> p1.y + (n * d1y) \div d,
                 exact |-> (n * d1x) % d = 0 /\ (n * d1y) % d = 0] >>

lineLineFrom(p1, p2, p3, p4) ==
    LET d1x == p2.x - p1.x
        d1y == p2.y - p1.y
        d2x == p4.x - p3.x
        d2y == p4.y - p3.y
        denom == d1x * d2y - d1y * d2x
        tnum == (p3.x - p1.x) * d2y - (p3.y - p1.y) * d2x
        (* t = tnum / denom with the sign carried by the numerator *)
        n == IF denom < 0 THEN -tnum ELSE tnum
        d == Abs(denom)
    IN  IF denom = 0 THEN <<>>
        ELSE << [x |-> p1.x + (n * d1x) \div d,
                 y |-> p1.y + (n * d1y) \div d,
                 exact |-> (n * d1x) % d = 0 /\ (n * d1y) % d = 0] >>

lineLineIntersection(els, l1, l2) ==
    LET p1 == findPoint(els, l1.p1Id)
        p2 == findPoint(els, l1.p2Id)
        p3 == findPoint(els, l2.p1Id)
        p4 == findPoint(els, l2.p2Id)
    IN  IF Undefined \in {p1, p2, p3, p4} THEN <<>>
        ELSE lineLineFrom(p1, p2, p3, p4)

(* The remaining algorithms work on whole numbers by scaling: the points of
   a line are given in units of 1 / s, and a result is the point
   ((bxn + sqrt(root) * vx) / den, (byn + sqrt(root) * vy) / den).  A whole
   square root is folded into the coordinates; x and y are the whole parts
   and rx / den, ry / den the fractions left. *)
Surd(bxn, byn, den, h, vx, vy) ==
    LET r == ISqrt(h)
        whole == (r * r = h)
        xn == IF whole THEN bxn + r * vx ELSE bxn
        yn == IF whole THEN byn + r * vy ELSE byn
    IN  [x |-> xn \div den, y |-> yn \div den,
         exact |-> whole /\ xn % den = 0 /\ yn % den = 0,
         rx |-> xn % den, ry |-> yn % den, den |-> den,
         root |-> IF whole THEN 0 ELSE h,
         vx |-> IF whole THEN 0 ELSE vx,
         vy |-> IF whole THEN 0 ELSE vy]

Scaled(p, s) == [x |-> s * p.x, y |-> s * p.y]

(* the point of lineLineFrom on points in units of 1 / s, in world units *)
Unscaled(ints, s) ==
    [i \in 1..Len(ints) |->
        [x |-> ints[i].x \div s, y |-> ints[i].y \div s,
         exact |-> ints[i].exact /\ ints[i].x % s = 0 /\ ints[i].y % s = 0]]

NoLine == Undefined

(* the two points of a line element, in units of 1 / 2 *)
linePoints(els, line) ==
    LET p1 == findPoint(els, line.p1Id)
        p2 == findPoint(els, line.p2Id)
    IN  IF p1 = Undefined \/ p2 = Undefined THEN NoLine
        ELSE [p1 |-> Scaled(p1, 2), p2 |-> Scaled(p2, 2)]

(* the midpoint minus and plus the direction (-dy, dx): two points of the
   bisector, in units of 1 / 2.  The source takes them 10000 units from the
   midpoint; every two points of the line give the same intersections. *)
getBisectorLinePoints(els, bisector) ==
    LET p1 == findPoint(els, bisector.p1Id)
        p2 == findPoint(els, bisector.p2Id)
        dx == p2.x - p1.x
        dy == p2.y - p1.y
    IN  IF p1 = Undefined \/ p2 = Undefined THEN NoLine
        ELSE IF dx = 0 /\ dy = 0 THEN NoLine
        ELSE [p1 |-> [x |-> p1.x + p2.x + 2 * dy, y |-> p1.y + p2.y - 2 * dx],
              p2 |-> [x |-> p1.x + p2.x - 2 * dy, y |-> p1.y + p2.y + 2 * dx]]

(* the element whose two points give the reference direction: the reference
   itself when it is a line or a bisector, the reference of the reference
   when it is a perpendicular line, nothing otherwise *)
referencePoints(els, refEl) ==
    LET refRefEl == findElement(els, refEl.referenceLineId)
        from == IF refEl.type \in {"line", "perpendicular_bisector"}
                THEN refEl
                ELSE IF refEl.type # "perpendicular_line" THEN Undefined
                ELSE IF findPoint(els, refEl.pointId) = Undefined
                THEN Undefined
                ELSE IF refRefEl = Undefined THEN Undefined
                ELSE IF refRefEl.type \in {"line", "perpendicular_bisector"}
                THEN refRefEl ELSE Undefined
    IN  IF from = Undefined THEN Undefined
        ELSE [p1 |-> findPoint(els, from.p1Id),
              p2 |-> findPoint(els, from.p2Id)]

getPerpLinePoints(els, perpLine) ==
    LET point == findPoint(els, perpLine.pointId)
        refEl == findElement(els, perpLine.referenceLineId)
        ref == referencePoints(els, refEl)
        segDx == ref.p2.x - ref.p1.x
        segDy == ref.p2.y - ref.p1.y
        refDx == IF refEl.type = "perpendicular_bisector" THEN -segDy
                 ELSE segDx
        refDy == IF refEl.type = "perpendicular_bisector" THEN segDx
                 ELSE segDy
    IN  IF point = Undefined \/ refEl = Undefined THEN NoLine
        ELSE IF ref = Undefined THEN NoLine
        ELSE IF ref.p1 = Undefined \/ ref.p2 = Undefined THEN NoLine
        ELSE IF segDx = 0 /\ segDy = 0 THEN NoLine
        ELSE [p1 |-> [x |-> 2 * point.x + 2 * refDy,
                      y |-> 2 * point.y - 2 * refDx],
              p2 |-> [x |-> 2 * point.x - 2 * refDy,
                      y |-> 2 * point.y + 2 * refDx]]

(* the line an element is treated as, in units of 1 / 2 *)
syntheticLine(els, el) ==
    IF el.type = "line" THEN linePoints(els, el)
    ELSE IF el.type = "perpendicular_bisector"
    THEN getBisectorLinePoints(els, el)
    ELSE getPerpLinePoints(els, el)

(* lineLineIntersection on the temporary lines *)
lineLineOn(l1, l2) ==
    IF l1 = NoLine \/ l2 = NoLine THEN <<>>
    ELSE Unscaled(lineLineFrom(l1.p1, l1.p2, l2.p1, l2.p2), 2)

(* lineCircleIntersection on a line through p1 and p2 given in units of
   1 / s: the foot of the centre on the line, minus and plus the half
   chord along the direction *)
lineCircleFrom(p1, p2, center, radiusPoint, s) ==
    LET c == Scaled(center, s)
        R == s * s * Dist2(center, radiusPoint.x, radiusPoint.y)
        dx == p2.x - p1.x
        dy == p2.y - p1.y
        LL == dx * dx + dy * dy
        fx == c.x - p1.x
        fy == c.y - p1.y
        fd == fx * dx + fy * dy
        (* (radius^2 - distToLine^2) * len^2 *)
        H == R * LL - ((fx * fx + fy * fy) * LL - fd * fd)
        cxn == p1.x * LL + fd * dx
        cyn == p1.y * LL + fd * dy
    IN  IF LL = 0 THEN <<>>
        ELSE IF H < 0 THEN <<>>
        ELSE IF H > 0
        THEN << Surd(cxn, cyn, LL * s, H, -dx, -dy),
                Surd(cxn, cyn, LL * s, H, dx, dy) >>
        ELSE << Surd(cxn, cyn, LL * s, 0, 0, 0) >>

lineCircleOn(els, l, circle) ==
    LET center == findPoint(els, circle.centerId)
        radiusPoint == findPoint(els, circle.radiusPointId)
    IN  IF l = NoLine THEN <<>>
        ELSE IF center = Undefined \/ radiusPoint = Undefined THEN <<>>
        ELSE lineCircleFrom(l.p1, l.p2, center, radiusPoint, 2)

(* d > r1 + r2 on the squares D, R1, R2 *)
TooFar(D, R1, R2) ==
    D - R1 - R2 > 0 /\ (D - R1 - R2) * (D - R1 - R2) > 4 * R1 * R2

(* d < |r1 - r2| on the squares *)
Inside(D, R1, R2) ==
    R1 + R2 - D > 0 /\ (R1 + R2 - D) * (R1 + R2 - D) > 4 * R1 * R2

(* circleCircleIntersection with dist >= r1 + r2 in place of dist > r1 + r2 *)
circleCircleFromTouching(center1, radius1Point, center2, radius2Point) ==
    LET R1 == Dist2(center1, radius1Point.x, radius1Point.y)
        R2 == Dist2(center2, radius2Point.x, radius2Point.y)
        D == Dist2(center1, center2.x, center2.y)
        dx == center2.x - center1.x
        dy == center2.y - center1.y
        A == R1 - R2 + D
        H == 4 * D * R1 - A * A
        touching == D - R1 - R2 >= 0
                    /\ (D - R1 - R2) * (D - R1 - R2) >= 4 * R1 * R2
    IN  IF touching \/ Inside(D, R1, R2) \/ D = 0 THEN <<>>
        ELSE << Surd(2 * D * center1.x + A * dx, 2 * D * center1.y + A * dy,
                     2 * D, H, dy, -dx),
                Surd(2 * D * center1.x + A * dx, 2 * D * center1.y + A * dy,
                     2 * D, H, -dy, dx) >>

(* circleCircleIntersection returning the first of its two points only *)
circleCircleFromFirstOnly(center1, radius1Point, center2, radius2Point) ==
    LET R1 == Dist2(center1, radius1Point.x, radius1Point.y)
        R2 == Dist2(center2, radius2Point.x, radius2Point.y)
        D == Dist2(center1, center2.x, center2.y)
        dx == center2.x - center1.x
        dy == center2.y - center1.y
        A == R1 - R2 + D
        H == 4 * D * R1 - A * A
    IN  IF TooFar(D, R1, R2) \/ Inside(D, R1, R2) \/ D = 0 THEN <<>>
        ELSE << Surd(2 * D * center1.x + A * dx, 2 * D * center1.y + A * dy,
                     2 * D, H, dy, -dx) >>

(* a = (r1^2 - r2^2 + d^2) / (2 d), h = sqrt(r1^2 - a^2); the points are
   (px + h dy / d, py - h dx / d) and (px - h dy / d, py + h dx / d) *)
circleCircleFrom(center1, radius1Point, center2, radius2Point) ==
    LET R1 == Dist2(center1, radius1Point.x, radius1Point.y)
        R2 == Dist2(center2, radius2Point.x, radius2Point.y)
        D == Dist2(center1, center2.x, center2.y)
        dx == center2.x - center1.x
        dy == center2.y - center1.y
        A == R1 - R2 + D
        H == 4 * D * R1 - A * A
    IN  IF TooFar(D, R1, R2) \/ Inside(D, R1, R2) \/ D = 0 THEN <<>>
        ELSE << Surd(2 * D * center1.x + A * dx, 2 * D * center1.y + A * dy,
                     2 * D, H, dy, -dx),
                Surd(2 * D * center1.x + A * dx, 2 * D * center1.y + A * dy,
                     2 * D, H, -dy, dx) >>

circleCircleIntersection(els, c1, c2) ==
    LET center1 == findPoint(els, c1.centerId)
        radius1Point == findPoint(els, c1.radiusPointId)
        center2 == findPoint(els, c2.centerId)
        radius2Point == findPoint(els, c2.radiusPointId)
    IN  IF Undefined \in {center1, radius1Point, center2, radius2Point}
        THEN <<>>
        ELSE circleCircleFrom(center1, radius1Point, center2, radius2Point)

Linear == {"line", "perpendicular_bisector", "perpendicular_line"}

(* the branch of findIntersections a pair of kinds takes: the base algorithm
   it ends in and the order the two elements are handed on in *)
NoBranch == [via |-> "none", swap |-> FALSE]

dispatch(t1, t2) ==
    IF t1 = "point" \/ t2 = "point" THEN NoBranch
    ELSE IF t1 \in Linear /\ t2 \in Linear
    THEN [via |-> "lineLineIntersection",
          swap |-> (t1 # "line" /\ t2 = "line")
                   \/ (t1 = "perpendicular_line"
                       /\ t2 = "perpendicular_bisector")]
    ELSE IF t1 \in Linear /\ t2 = "circle"
    THEN [via |-> "lineCircleIntersection", swap |-> FALSE]
    ELSE IF t1 = "circle" /\ t2 \in Linear
    THEN [via |-> "lineCircleIntersection", swap |-> TRUE]
    ELSE IF t1 = "circle" /\ t2 = "circle"
    THEN [via |-> "circleCircleIntersection", swap |-> FALSE]
    ELSE NoBranch

findIntersections(els, el1, el2) ==
    LET branch == dispatch(el1.type, el2.type)
        a == IF branch.swap THEN el2 ELSE el1
        b == IF branch.swap THEN el1 ELSE el2
    IN  IF branch.via = "lineLineIntersection"
        THEN IF a.type = "line" /\ b.type = "line"
             THEN lineLineIntersection(els, a, b)
             ELSE lineLineOn(syntheticLine(els, a), syntheticLine(els, b))
        ELSE IF branch.via = "lineCircleIntersection"
        THEN lineCircleOn(els, syntheticLine(els, a), b)
        ELSE IF branch.via = "circleCircleIntersection"
        THEN circleCircleIntersection(els, a, b)
        ELSE <<>>

(* results.push(...ints) for each element in turn; a pair of elements has at
   most two intersections *)
Flatten(parts) ==
    LET pairs == {q \in (1..Len(parts)) \X (1..2) : q[2] <= Len(parts[q[1]])}
        before(q) == Cardinality({r \in pairs :
                                     \/ r[1] < q[1]
                                     \/ (r[1] = q[1] /\ r[2] < q[2])})
        at(n) == CHOOSE q \in pairs : before(q) = n - 1
    IN  [n \in 1..Cardinality(pairs) |-> parts[at(n)[1]][at(n)[2]]]

(* allIntersections: the intersections of the hovered element with every
   other element that is not a point, in collection order *)
allIntersections(els, hoveredEl) ==
    Flatten([i \in 1..Len(els) |->
                IF els[i].type # "point" /\ els[i].id # hoveredEl.id
                THEN findIntersections(els, hoveredEl, els[i]) ELSE <<>>])

(* the first of the candidates nearest to the cursor, when that one lies
   within 15 / zoom *)
hoveredIndex(ints, mouse, z) ==
    LET closest == MinOf({i \in 1..Len(ints) :
                             \A j \in 1..Len(ints) :
                                 Dist2(ints[i], mouse.x, mouse.y)
                                     <= Dist2(ints[j], mouse.x, mouse.y)})
    IN  IF ints = <<>> THEN NoIndex
        ELSE IF Within(ints[closest].x - mouse.x, ints[closest].y - mouse.y,
                       150, z)
        THEN closest ELSE NoIndex

(* the hover state a pointer move computes outside the intersect tool *)
NoHover == [preview |-> <<>>, index |-> NoIndex]

hoverOver(els, hoveredEl, mouse, z) ==
    IF hoveredEl = Undefined \/ hoveredEl.type = "point" THEN NoHover
    ELSE [preview |-> allIntersections(els, hoveredEl),
          index |-> hoveredIndex(allIntersections(els, hoveredEl), mouse, z)]

hoverState(tool, els, mouse, z) ==
    IF tool = "intersect"
    THEN hoverOver(els, findClickedElement(els, mouse, z), mouse, z)
    ELSE NoHover

(* the pointer move writing the dragged point to the store *)
handleMouseMoveWritesStore(p) ==
    /\ mousePos' = p
    /\ Did(<<"mouseMove">>)
    /\ UNCHANGED <<consVars, selectedTool, zoom, lastClick, nextId,
                   selectedElementId, draggedPointId, dragOriginalPos,
                   script>>
    /\ IF selectedTool = "select" /\ draggedPointId # NoId
       THEN /\ draggedPointPos' = p
            /\ updateElement(draggedPointId, [x |-> p.x, y |-> p.y])
            /\ StagedBroken("updateElement")
            /\ UNCHANGED <<snapTarget, hoverVars>>
       ELSE /\ snapTarget' = findSnapTarget(p, elements, zoom)
            /\ previewIntersections' = <<>>
            /\ hoveredIntersectionIndex' = NoIndex
            /\ StagedKept
            /\ UNCHANGED <<histVars, draggedPointPos, log>>

handleMouseMove(p) ==
    /\ mousePos' = p
    /\ Did(<<"mouseMove">>)
    /\ StagedKept
    /\ UNCHANGED <<histVars, consVars, selectedTool, zoom, lastClick, nextId,
                   selectedElementId, draggedPointId, dragOriginalPos, log,
                   script>>
    /\ IF selectedTool = "select" /\ draggedPointId # NoId
       THEN /\ draggedPointPos' = p
            /\ UNCHANGED <<snapTarget, hoverVars>>
       ELSE /\ snapTarget' = findSnapTarget(p, elements, zoom)
            /\ previewIntersections' =
                   hoverState(selectedTool, elements, p, zoom).preview
            /\ hoveredIntersectionIndex' =
                   hoverState(selectedTool, elements, p, zoom).index
            /\ UNCHANGED draggedPointPos

(* the intersect click adding the candidate without looking for a point
   already there *)
handleIntersectClickNoLookup ==
    LET intersection == previewIntersections[hoveredIntersectionIndex]
    IN  /\ selectedTool = "intersect"
        /\ UNCHANGED <<consVars, selectedTool, pointerVars, zoom, lastClick,
                       script>>
        /\ IF previewIntersections # <<>>
              /\ hoveredIntersectionIndex # NoIndex
           THEN /\ nextId <= IdLimit
                /\ addElement(Point(nextId, intersection.x,
                                    intersection.y, FALSE))
                /\ nextId' = nextId + 1
                /\ Did(<<"intersect", "addElement">>)
                /\ StagedBroken("addElement")
           ELSE /\ Did(<<"intersect">>)
                /\ StagedKept
                /\ UNCHANGED <<histVars, nextId, log>>

(* handleMouseDown with the left button, intersect tool *)
handleIntersectClick ==
    LET intersection == previewIntersections[hoveredIntersectionIndex]
        existingPoint == findExistingPoint(elements, intersection.x,
                                           intersection.y, 15, zoom)
    IN  /\ selectedTool = "intersect"
        /\ UNCHANGED <<consVars, selectedTool, pointerVars, zoom, lastClick,
                       script>>
        /\ IF previewIntersections # <<>>
              /\ hoveredIntersectionIndex # NoIndex
           THEN IF existingPoint = Undefined
                THEN /\ nextId <= IdLimit
                     /\ addElement(Point(nextId, intersection.x,
                                         intersection.y, FALSE))
                     /\ nextId' = nextId + 1
                     /\ Did(<<"intersect", "addElement">>)
                     /\ StagedBroken("addElement")
                ELSE /\ Did(<<"intersect", "existing">>)
                     /\ StagedKept
                     /\ UNCHANGED <<histVars, nextId, log>>
           ELSE /\ Did(<<"intersect">>)
                /\ StagedKept
                /\ UNCHANGED <<histVars, nextId, log>>

setSelectedElementId(id) == selectedElementId' = id

(* pointer-down starting a drag on any point under the cursor *)
handleMouseDownSelectAnyPoint ==
    LET clickedPoint == findClickedPointAny(elements, mousePos, zoom)
        clickedElement == findClickedElement(elements, mousePos, zoom)
    IN  /\ selectedTool = "select"
        /\ Did(<<"select", "mouseDown">>)
        /\ StagedKept
        /\ UNCHANGED <<histVars, consVars, selectedTool, mouseVars, hoverVars,
                       zoom, lastClick, nextId, log, script>>
        /\ IF clickedPoint # Undefined
           THEN /\ draggedPointId' = clickedPoint.id
                /\ dragOriginalPos' = Pos(clickedPoint.x, clickedPoint.y)
                /\ draggedPointPos' = Pos(clickedPoint.x, clickedPoint.y)
                /\ setSelectedElementId(clickedPoint.id)
           ELSE /\ setSelectedElementId(IF clickedElement # Undefined
                                        THEN clickedElement.id ELSE NoId)
                /\ UNCHANGED dragVars

(* handleMouseDown with the left button, select tool *)
handleMouseDownSelect ==
    LET clickedPoint == findClickedPoint(elements, mousePos, zoom)
        clickedElement == findClickedElement(elements, mousePos, zoom)
    IN  /\ selectedTool = "select"
        /\ Did(<<"select", "mouseDown">>)
        /\ StagedKept
        /\ UNCHANGED <<histVars, consVars, selectedTool, mouseVars, hoverVars,
                       zoom, lastClick, nextId, log, script>>
        /\ IF clickedPoint # Undefined /\ clickedPoint.isFixed
           THEN /\ draggedPointId' = clickedPoint.id
                /\ dragOriginalPos' = Pos(clickedPoint.x, clickedPoint.y)
                /\ draggedPointPos' = Pos(clickedPoint.x, clickedPoint.y)
                /\ setSelectedElementId(clickedPoint.id)
           ELSE /\ setSelectedElementId(IF clickedElement # Undefined
                                        THEN clickedElement.id ELSE NoId)
                /\ UNCHANGED dragVars

(* the release committing whatever the displacement *)
MovedAlways(from, to) == TRUE

(* Math.hypot(to - from) > 0.01 *)
Moved(from, to) ==
    10000 * ((to.x - from.x) * (to.x - from.x)
             + (to.y - from.y) * (to.y - from.y)) > 1

(* handleMouseUp with the left button *)
handleMouseUp ==
    /\ UNCHANGED <<consVars, selectedTool, mouseVars, selectedElementId,
                   hoverVars, zoom, lastClick, nextId, script>>
    /\ IF /\ selectedTool = "select"
          /\ draggedPointId # NoId
          /\ draggedPointPos # Undefined
          /\ dragOriginalPos # Undefined
       THEN /\ draggedPointId' = NoId
            /\ draggedPointPos' = Undefined
            /\ dragOriginalPos' = Undefined
            /\ IF Moved(dragOriginalPos, draggedPointPos)
               THEN /\ updateElement(draggedPointId,
                                     [x |-> draggedPointPos.x,
                                      y |-> draggedPointPos.y])
                    /\ Did(<<"mouseUp", "updateElement">>)
                    /\ StagedBroken("updateElement")
               ELSE /\ Did(<<"mouseUp", "release">>)
                    /\ StagedKept
                    /\ UNCHANGED <<histVars, log>>
       ELSE /\ Did(<<"mouseUp">>)
            /\ StagedKept
            /\ UNCHANGED <<histVars, dragVars, log>>

(* the Delete and Backspace keys *)
KeyDelete ==
    /\ selectedElementId # NoId
    /\ removeElement(selectedElementId)
    /\ selectedTool' = "select"
    /\ clearIntersectionSelection("select")
    /\ Did(<<"delete", "removeElement", "setSelectedTool">>)
    /\ StagedBroken("removeElement")
    /\ UNCHANGED <<consVars, mouseVars, selectedElementId, dragVars, zoom,
                   lastClick, nextId, script>>

-----------------------------------------------------------------------------
(* The program from construction, driven by arbitrary input events *)

InitStore ==
    /\ elements = <<>>
    /\ history = << <<>> >>
    /\ historyIndex = 0
    /\ canUndo = FALSE
    /\ canRedo = FALSE
    /\ selectedTool = "select"
    /\ isDrawing = FALSE
    /\ tempData = Undefined
    /\ mousePos = Pos(0, 0)
    /\ snapTarget = Undefined
    /\ zoom = 10
    /\ lastClick = NoId
    /\ nextId = 1
    /\ selectedElementId = NoId
    /\ draggedPointId = NoId
    /\ draggedPointPos = Undefined
    /\ dragOriginalPos = Undefined
    /\ previewIntersections = <<>>
    /\ hoveredIntersectionIndex = NoIndex
    /\ pushes = 0
    /\ dropped = 0
    /\ lastOp = <<>>
    /\ log = <<>>
    /\ staged = StagedNone

Init ==
    /\ InitStore
    /\ script = [kind |-> "free", cap |-> MaxPushes, watch |-> {"lastOp"}]

ApiIds == 1..1

Pointer == \E p \in MousePositions : handleMouseMove(Pos(p[1], p[2]))

Keys == KeyUndo \/ KeyRedo

Api ==
    \/ \E id \in ApiIds : ApiRemoveElement(id)
    \/ \E id \in ApiIds : ApiUpdateElement(id, Pos(7, 7))
    \/ ApiClearCanvas

(* the store under the point and line tools, undo and redo, and the direct
   calls *)
Next ==
    \/ Pointer
    \/ \E t \in {"point", "line"} : setSelectedTool(t)
    \/ Keys
    \/ PointClick
    \/ LineClick
    \/ Api

Spec == Init /\ [][Next]_vars

(* the same program with the label tool *)
NextSnapshots ==
    \/ Next
    \/ setSelectedTool("label")
    \/ \E quick \in BOOLEAN : handleLabelClick(quick)

SpecSnapshots == Init /\ [][NextSnapshots]_vars

(* the same program with the ghost log of writing operations recorded *)
InitLog ==
    /\ InitStore
    /\ script = [kind |-> "free", cap |-> MaxPushes, watch |-> {"log"}]

(* the line and label tools with undo and redo *)
NextLog ==
    \/ Pointer
    \/ \E t \in {"line", "label"} : setSelectedTool(t)
    \/ Keys
    \/ LineClick
    \/ \E quick \in BOOLEAN : handleLabelClick(quick)

SpecLog == InitLog /\ [][NextLog]_vars

(* the line, circle and label tools with undo, the ghost of the
   two-click construction recorded *)
InitStaged ==
    /\ InitStore
    /\ script = [kind |-> "free", cap |-> MaxPushes, watch |-> {"staged"}]

NextStaged ==
    \/ Pointer
    \/ \E t \in {"line", "circle", "label"} : setSelectedTool(t)
    \/ KeyUndo
    \/ LineClick
    \/ CircleClick
    \/ \E quick \in BOOLEAN : handleLabelClick(quick)

SpecStaged == InitStaged /\ [][NextStaged]_vars

(* the point tool and the three bisector and perpendicular tools; every
   commit of these tools takes one id *)
InitTools ==
    /\ InitStore
    /\ script = [kind |-> "free", cap |-> MaxIds, watch |-> {"lastOp"}]

PendingTools == {"perpendicular_bisector", "perpendicular_line",
                 "angle_bisector"}

NextTools ==
    \/ \E p \in ToolPositions : handleMouseMove(Pos(p[1], p[2]))
    \/ \E t \in PendingTools \cup {"point"} : setSelectedTool(t)
    \/ PointClick
    \/ handlePerpendicularBisectorClick
    \/ handlePerpendicularLineClick
    \/ handleAngleBisectorClick

SpecTools == InitTools /\ [][NextTools]_vars

(* the point, line and perpendicular bisector tools with undo and redo *)
NextBisector ==
    \/ Pointer
    \/ \E t \in {"point", "line", "perpendicular_bisector"} :
           setSelectedTool(t)
    \/ Keys
    \/ PointClick
    \/ LineClick
    \/ handlePerpendicularBisectorClick

SpecBisector == InitTools /\ [][NextBisector]_vars

(* the same tools with the open staging of the line tool recorded *)
InitSwitch ==
    /\ InitStore
    /\ script = [kind |-> "free", cap |-> MaxIds,
                 watch |-> {"lastOp", "staged"}]

SpecSwitch == InitSwitch /\ [][NextBisector]_vars

(* the point and angle bisector tools with undo and redo *)
NextAngle ==
    \/ \E p \in ToolPositions : handleMouseMove(Pos(p[1], p[2]))
    \/ \E t \in {"point", "angle_bisector"} : setSelectedTool(t)
    \/ Keys
    \/ PointClick
    \/ handleAngleBisectorClick

SpecAngle == InitTools /\ [][NextAngle]_vars

(* K calls of addElement on the initial store, then K calls of undo *)
InitUndo ==
    /\ InitStore
    /\ \E K \in 1..MaxK :
           script = [kind |-> "undoAll", cap |-> K, watch |-> {}, undone |-> 0]

ScriptUndo ==
    /\ pushes = script.cap
    /\ script.undone < script.cap
    /\ UndoCall
    /\ script' = [script EXCEPT !.undone = @ + 1]

NextUndo == ApiAddPoint \/ ScriptUndo

SpecUndo == InitUndo /\ [][NextUndo]_vars

(* the store brought to the history limit by WarmUp calls of addElement,
   then driven by addElement, clearCanvas, undo and redo *)
InitCap ==
    /\ InitStore
    /\ script = [kind |-> "cap", cap |-> WarmUp + MaxPushes, watch |-> {}]

AfterWarmUp == pushes >= WarmUp

NextCap ==
    \/ ApiAddPoint
    \/ AfterWarmUp /\ ApiClearCanvas
    \/ AfterWarmUp /\ KeyUndo
    \/ AfterWarmUp /\ KeyRedo

SpecCap == InitCap /\ [][NextCap]_vars

(* the point, line and circle tools with undo and redo *)
NextShapes ==
    \/ Pointer
    \/ \E t \in {"point", "line", "circle"} : setSelectedTool(t)
    \/ Keys
    \/ PointClick
    \/ LineClick
    \/ CircleClick

SpecShapes == Init /\ [][NextShapes]_vars

(* A drawn scene: the line tool clicked at (0,0), (20,20), (0,20) and
   (20,0) on the empty canvas, which leaves two crossing lines and their four
   end points in two history entries; a click of the intersect tool on the
   crossing then adds the derived point as a third entry *)
SceneElements ==
    << Point(1, 0, 0, TRUE), Point(2, 20, 20, TRUE), Line(3, 1, 2),
       Point(4, 0, 20, TRUE), Point(5, 20, 0, TRUE), Line(6, 4, 5),
       Point(7, 10, 10, FALSE) >>

SceneAfter(n) ==
    SubSeq(SceneElements, 1, IF n = 3 THEN Len(SceneElements) ELSE 3 * n)

SceneHistory(n) == [k \in 1..(n + 1) |-> SceneAfter(k - 1)]

ScenePositions == {<<0, 0>>, <<10, 10>>}

(* the state after the n-th commit of the scene, the pointer still where the
   last click was made *)
InitSceneAfter(n, tool, mouse, preview, index) ==
    /\ elements = SceneAfter(n)
    /\ history = SceneHistory(n)
    /\ historyIndex = n
    /\ canUndo = TRUE
    /\ canRedo = FALSE
    /\ selectedTool = tool
    /\ isDrawing = FALSE
    /\ tempData = Undefined
    /\ mousePos = mouse
    /\ snapTarget = Undefined
    /\ zoom = 10
    /\ lastClick = NoId
    /\ nextId = Len(SceneAfter(n)) + 1
    /\ selectedElementId = NoId
    /\ draggedPointId = NoId
    /\ draggedPointPos = Undefined
    /\ dragOriginalPos = Undefined
    /\ previewIntersections = preview
    /\ hoveredIntersectionIndex = index
    /\ pushes = n
    /\ dropped = 0
    /\ lastOp = <<>>
    /\ log = <<>>
    /\ staged = StagedNone
    /\ script = [kind |-> "free", cap |-> n + MaxPushes,
                 watch |-> {"lastOp"},
                 ids |-> Len(SceneAfter(n)) + MaxPushes]

ScenePointer == \E p \in ScenePositions : handleMouseMove(Pos(p[1], p[2]))

Scene == SceneAfter(2)

(* the two lines drawn *)
InitScene == InitSceneAfter(2, "line", Pos(20, 0), <<>>, NoIndex)

IntersectPositions == ScenePositions \cup {<<30, 0>>}

(* the point and intersect tools on the scene, with undo and redo *)
NextIntersect ==
    \/ \E p \in IntersectPositions : handleMouseMove(Pos(p[1], p[2]))
    \/ \E t \in {"point", "intersect"} : setSelectedTool(t)
    \/ PointClick
    \/ handleIntersectClick
    \/ Keys

SpecIntersect == InitScene /\ [][NextIntersect]_vars

PerpPositions == {<<0, 0>>, <<10, 10>>, <<0, 20>>}

(* the first line drawn *)
InitPerp == InitSceneAfter(1, "line", Pos(20, 20), <<>>, NoIndex)

(* the point and perpendicular line tools on the first line of the scene,
   with undo and redo *)
NextPerp ==
    \/ \E p \in PerpPositions : handleMouseMove(Pos(p[1], p[2]))
    \/ \E t \in {"point", "perpendicular_line"} : setSelectedTool(t)
    \/ PointClick
    \/ handlePerpendicularLineClick
    \/ Keys

SpecPerp == InitPerp /\ [][NextPerp]_vars

(* 26 points in a row; the first 25 carry the letters A..Y *)
LabelPoints == 26
LabelledAtStart == 25

LabelRow(n, labelled) ==
    [i \in 1..n |->
        Merge(Point(i, 20 * i, 0, TRUE),
              [label |-> IF i <= labelled THEN Letters[i] ELSE NoLabel])]

LabelPositions == {<<520, 0>>, <<0, 40>>}

(* the state after 26 clicks of the point tool and 25 clicks of the label
   tool: the label tool leaves no snapshot, so no snapshot has a label *)
InitLabels ==
    /\ elements = LabelRow(LabelPoints, LabelledAtStart)
    /\ history = [k \in 1..(LabelPoints + 1) |-> LabelRow(k - 1, 0)]
    /\ historyIndex = LabelPoints
    /\ canUndo = TRUE
    /\ canRedo = FALSE
    /\ selectedTool = "label"
    /\ isDrawing = FALSE
    /\ tempData = Undefined
    /\ mousePos = Pos(20 * LabelledAtStart, 0)
    /\ snapTarget = Undefined
    /\ zoom = 10
    /\ lastClick = LabelledAtStart
    /\ nextId = LabelPoints + 1
    /\ selectedElementId = NoId
    /\ draggedPointId = NoId
    /\ draggedPointPos = Undefined
    /\ dragOriginalPos = Undefined
    /\ previewIntersections = <<>>
    /\ hoveredIntersectionIndex = NoIndex
    /\ pushes = LabelPoints
    /\ dropped = 0
    /\ lastOp = <<>>
    /\ log = <<>>
    /\ staged = StagedNone
    /\ script = [kind |-> "free", cap |-> LabelPoints + 1,
                 watch |-> {"lastOp"}, ids |-> LabelPoints + 1]

(* the label and point tools on the row, with undo and redo *)
NextLabels ==
    \/ \E p \in LabelPositions : handleMouseMove(Pos(p[1], p[2]))
    \/ \E t \in {"label", "point"} : setSelectedTool(t)
    \/ PointClick
    \/ \E quick \in BOOLEAN : handleLabelClick(quick)
    \/ Keys

SpecLabels == InitLabels /\ [][NextLabels]_vars

(* the derived point added and the select tool chosen *)
InitDerived ==
    InitSceneAfter(3, "select", Pos(10, 10),
                   <<[x |-> 10, y |-> 10, exact |-> TRUE]>>, 1)

(* the select tool on the scene, with undo and redo *)
NextSelect ==
    \/ ScenePointer
    \/ handleMouseDownSelect
    \/ handleMouseUp
    \/ Keys

SpecSelect == InitDerived /\ [][NextSelect]_vars

SnapPositions == {<<0, 0>>, <<10, 0>>}

(* the line tool with pointer positions closer together than the snap
   radius *)
NextSnap ==
    \/ \E p \in SnapPositions : handleMouseMove(Pos(p[1], p[2]))
    \/ \E t \in {"line", "select"} : setSelectedTool(t)
    \/ LineClick
    \/ Keys

SpecSnap == Init /\ [][NextSnap]_vars

(* the line and select tools with undo, redo and delete *)
NextIds ==
    \/ Pointer
    \/ \E t \in {"line", "select"} : setSelectedTool(t)
    \/ LineClick
    \/ handleMouseDownSelect
    \/ handleMouseUp
    \/ Keys
    \/ KeyDelete

SpecIds == Init /\ [][NextIds]_vars

(* findIntersections applied to every ordered pair of elements of a
   collection with one element or more of every kind: four points, two
   lines, two circles, two perpendicular bisectors, three perpendicular
   lines (on a line, on a bisector, on a perpendicular line), an angle
   bisector, a line whose second point is missing, a perpendicular line
   on a perpendicular line on a perpendicular line, circles that
   coincide, are concentric or lie apart, a line and a bisector whose two
   points coincide in one of the placements, perpendicular lines whose
   point, reference or reference's point is missing, and two lines that
   are parallel in one placement and of which one lies on another line in
   another placement *)
FindElements(p2, p4) ==
    << Point(1, 0, 0, TRUE), Point(2, p2[1], p2[2], TRUE),
       Point(3, 0, 8, TRUE), Point(4, p4[1], p4[2], TRUE),
       Line(5, 1, 4), Line(6, 2, 3),
       Circle(7, 1, 2), Circle(8, 2, 1),
       PerpendicularBisector(9, 1, 2), PerpendicularBisector(10, 1, 3),
       PerpendicularLine(11, 3, 5), PerpendicularLine(12, 4, 9),
       PerpendicularLine(13, 2, 11),
       AngleBisector(14, 1, 2, 3),
       Line(15, 1, 16), Circle(16, 3, 1),
       PerpendicularLine(17, 1, 13),
       Circle(18, 1, 2), Circle(19, 1, 3), Circle(20, 4, 2),
       Line(21, 2, 4), PerpendicularBisector(22, 2, 4),
       PerpendicularLine(23, 1, 30), PerpendicularLine(24, 31, 5),
       PerpendicularLine(25, 3, 21), PerpendicularLine(26, 1, 15),
       Line(27, 1, 2), Line(28, 3, 4) >>

FindPositions == {<<6, 0>>, <<6, 8>>, <<10, 0>>}

InitFind ==
    /\ InitStore
    /\ \E p2 \in FindPositions \ {<<6, 8>>}, p4 \in FindPositions \ {<<6, 0>>} :
           script = [kind |-> "find", cap |-> 0, watch |-> {"lastOp"},
                     els |-> FindElements(p2, p4), a |-> 0, b |-> 0,
                     via |-> "none", ab |-> <<>>, ba |-> <<>>]

(* findIntersections(a, b) and findIntersections(b, a) called on the
   collection, once *)
FindPair(i, j) ==
    /\ script.a = 0
    /\ script' = [script EXCEPT
                     !.a = i, !.b = j,
                     !.via = dispatch(script.els[i].type,
                                      script.els[j].type).via,
                     !.ab = findIntersections(script.els, script.els[i],
                                              script.els[j]),
                     !.ba = findIntersections(script.els, script.els[j],
                                              script.els[i])]
    /\ Did(<<"findIntersections">>)
    /\ UNCHANGED <<histVars, consVars, selectedTool, pointerVars, zoom,
                   lastClick, nextId, log, staged>>

NextFind == \E i, j \in 1..Len(script.els) : FindPair(i, j)

SpecFind == InitFind /\ [][NextFind]_vars

TypeOK ==
    /\ historyIndex \in 0..(Len(history) - 1)
    /\ isDrawing \in BOOLEAN
    /\ hoveredIntersectionIndex \in 0..Len(previewIntersections)
    /\ \A i \in 1..Len(previewIntersections) : previewIntersections[i].exact

-----------------------------------------------------------------------------
(* Properties of the store and its history *)

CommitCalls(calls) ==
    Cardinality({i \in DOMAIN calls : calls[i] \in CommitOps})

(* C1 as stated: addElements makes one history entry, and an undo right
   after it leaves the collection exactly as it was before the batch *)
C1_BatchUndoRestores ==
    /\ (Len(log) >= 1 /\ log[Len(log)].op = "addElements") =>
           /\ Snapshot(historyIndex) = elements
           /\ historyIndex > 0
    /\ (Len(log) = 2 /\ log[1].op = "addElements" /\ log[2].op = "undo") =>
           elements = log[1].before

(* C4 as stated: an undo that moved, followed at once by a redo, leaves the
   collection that was live just before the undo *)
C4_UndoRedoRestores ==
    (/\ Len(log) = 2
     /\ log[1].op = "undo" /\ log[1].moved
     /\ log[2].op = "redo") => elements = log[1].before

(* C2 as stated: for every K >= 1, K calls of addElement on the initial
   store followed by K calls of undo leave the collection empty and canUndo
   false *)
C2_UndoAllEmpties ==
    (script.kind = "undoAll" /\ script.undone = script.cap) =>
        (elements = <<>> /\ ~canUndo)

(* C2 amended: the same for every K from 1 to one less than the history
   limit, 49 *)
C2_UndoAllEmptiesBelowLimit ==
    (/\ script.kind = "undoAll"
     /\ script.undone = script.cap
     /\ script.cap < HistoryLimit) => (elements = <<>> /\ ~canUndo)

(* 49 commits have been undone by 49 undos *)
C2_Witness ==
    /\ script.kind = "undoAll"
    /\ script.cap = HistoryLimit - 1
    /\ script.undone = script.cap
    /\ pushes = script.cap
    /\ Len(history) = HistoryLimit
    /\ elements = <<>>
    /\ ~canUndo

(* C3 as stated: the snapshot at index 0 is the empty collection in every
   reachable state *)
C3_BaselineEmpty == history[1] = <<>>

(* C3 amended: the snapshot at index 0 is the empty collection as long as the
   limit of 50 has not dropped a snapshot *)
C3_BaselineEmptyUntilDrop == dropped = 0 => history[1] = <<>>

(* the history is full, nothing has been dropped, and undo has gone down to
   the empty baseline *)
C3_Witness ==
    /\ Len(history) = HistoryLimit
    /\ dropped = 0
    /\ historyIndex = 0
    /\ elements = <<>>
    /\ history[1] = <<>>
    /\ ~canUndo

(* C6: the history holds between 1 and 50 snapshots and the pointer is an
   index of it; a push made with 50 snapshots held and the pointer on the
   top drops the oldest snapshot and leaves the pointer on the pushed one *)
C6_HistoryBounds ==
    /\ [](/\ Len(history) >= 1
          /\ Len(history) <= HistoryLimit
          /\ historyIndex >= 0
          /\ historyIndex <= Len(history) - 1)
    /\ [][(/\ pushes' = pushes + 1
           /\ Len(history) = HistoryLimit
           /\ historyIndex = HistoryLimit - 1) =>
              /\ history' = Append(Tail(history), elements')
              /\ historyIndex' = HistoryLimit - 1
              /\ dropped' = dropped + 1]_vars

(* a push has dropped the baseline: 50 snapshots are held, the pointer is
   on the top one, and the oldest one is no longer empty *)
C6_Witness ==
    /\ dropped = 1
    /\ Len(history) = HistoryLimit
    /\ historyIndex = HistoryLimit - 1
    /\ history[HistoryLimit] = elements
    /\ history[1] # <<>>

(* C5: a commit made while snapshots lie above the pointer (after an undo
   that moved) keeps the snapshots up to the pointer, puts the new collection
   on top of them and nothing above it: the pointer is on the new top,
   canRedo is false and redo has nothing to move to *)
C5_CommitDiscardsRedoBranch ==
    [][(CommitCalls(lastOp') = 1 /\ historyIndex < Len(history) - 1) =>
          /\ history' = Append(SubSeq(history, 1, historyIndex + 1), elements')
          /\ historyIndex' = Len(history') - 1
          /\ ~canRedo'
          /\ ~RedoMoves']_vars

(* two commits have been made and one snapshot beyond the baseline is left:
   the second commit came after an undo and discarded the first *)
C5_Witness ==
    /\ CommitCalls(lastOp) = 1
    /\ pushes = 2
    /\ dropped = 0
    /\ Len(history) = 2
    /\ historyIndex = 1
    /\ ~canRedo

(* C7: a handler pushes one snapshot, the resulting collection, for each
   call of addElement, addElements, updateElement, removeElement or
   clearCanvas it makes, and every other operation leaves the history as it
   is *)
C7_OnePushPerCommit ==
    [][/\ pushes' - pushes = CommitCalls(lastOp')
       /\ CommitCalls(lastOp') = 1 =>
              /\ Len(history') = historyIndex + 2 - (dropped' - dropped)
              /\ history'[Len(history')] = elements'
       /\ CommitCalls(lastOp') = 0 => history' = history]_vars

(* a batch of three elements has just been pushed as the second snapshot *)
C7_Witness ==
    /\ lastOp = <<"line", "addElements", "completeConstruction">>
    /\ pushes = 2
    /\ Len(history) = 3
    /\ Len(history[3]) = Len(history[2]) + 3
    /\ history[3] = elements

(* C8 as stated: a line or circle built by two clicks with no store mutation
   in between is one history entry holding the collection of the first click
   followed by the newly made points and the line or circle, the session is
   Idle, and one undo leaves the collection of before the first click *)
C8_TwoClickConstruction ==
    /\ staged.phase = "committed" =>
           /\ ~isDrawing
           /\ Len(elements) = Len(staged.before) + staged.n + 1
           /\ SubSeq(elements, 1, Len(staged.before)) = staged.before
           /\ \A i \in (Len(staged.before) + 1)..(Len(elements) - 1) :
                  IsPoint(elements[i])
           /\ elements[Len(elements)].type = staged.tool
           /\ Snapshot(historyIndex) = elements
    /\ staged.phase = "undone" => elements = staged.before

-----------------------------------------------------------------------------
(* Properties of the tools *)

Bisectors(els) ==
    {i \in 1..Len(els) : els[i].type = "perpendicular_bisector"}

(* C9: the collection never holds two perpendicular bisectors over the same
   unordered pair of point ids, and a second click that completes a pair
   which already has a bisector, in either order, cancels to Idle and leaves
   the collection and the history as they are *)
C9_OneBisectorPerPair ==
    /\ [](\A i, j \in Bisectors(elements) :
             i # j => {elements[i].p1Id, elements[i].p2Id}
                          # {elements[j].p1Id, elements[j].p2Id})
    /\ [][(/\ "bisectorExists" \in {lastOp'[k] : k \in DOMAIN lastOp'}
           /\ lastOp'[1] = "perpendicular_bisector") =>
              /\ ~isDrawing'
              /\ elements' = elements
              /\ history' = history
              /\ historyIndex' = historyIndex]_vars

(* the bisector over (a, b) is in the collection and the construction that
   has just been cancelled as a duplicate ended on a: it ran from b to a,
   the reverse of the stored order *)
C9_Witness ==
    /\ lastOp = <<"perpendicular_bisector", "bisectorExists",
                  "completeConstruction">>
    /\ ~isDrawing
    /\ Cardinality(Bisectors(elements)) = 1
    /\ \E i \in Bisectors(elements) :
           /\ elements[i].p1Id # elements[i].p2Id
           /\ closestPoint(elements, ClickPos.x, ClickPos.y, 120, zoom)
                  # Undefined
           /\ closestPoint(elements, ClickPos.x, ClickPos.y, 120, zoom).id
                  = elements[i].p1Id

(* C10 as stated: in the Pending state a click of the perpendicular
   bisector, perpendicular line or angle bisector tool that neither fills
   the next slot nor commits discards the payload and returns to Idle, with
   the collection and the history unchanged *)
C10_PendingClickCancels ==
    [][(/\ isDrawing
        /\ lastOp' # <<>>
        /\ lastOp'[1] \in PendingTools
        /\ {"startConstruction", "addElement"}
               \cap {lastOp'[k] : k \in DOMAIN lastOp'} = {}) =>
           /\ ~isDrawing'
           /\ tempData' = Undefined
           /\ elements' = elements
           /\ history' = history
           /\ historyIndex' = historyIndex]_vars

(* the point staged by the first click of the selected line or circle tool *)
StagedPoint ==
    IF selectedTool = "circle" THEN tempData.center ELSE tempData.p1

(* the click about to be made resolves to the staged first point: the point
   found under it has the staged id, or nothing is found and the click is on
   the position of the staged new point *)
SameAsStaged ==
    LET found == findExistingPoint(elements, ClickPos.x, ClickPos.y, 20, zoom)
    IN  /\ isDrawing
        /\ selectedTool \in {"line", "circle"}
        /\ StagedPoint # Undefined
        /\ IF found # Undefined THEN found.id = StagedPoint.id
           ELSE StagedPoint.x = ClickPos.x /\ StagedPoint.y = ClickPos.y

(* C11 as stated: a second click of the line or circle tool that resolves to
   the staged first point adds nothing, pushes nothing and returns to Idle,
   and no line or circle with two equal defining ids is in the collection *)
C11_SamePointCancels ==
    /\ [](\A i \in 1..Len(elements) :
             /\ elements[i].type = "line" =>
                    elements[i].p1Id # elements[i].p2Id
             /\ elements[i].type = "circle" =>
                    elements[i].centerId # elements[i].radiusPointId)
    /\ [][(SameAsStaged /\ lastOp' # <<>> /\ lastOp'[1] = selectedTool) =>
              /\ ~isDrawing'
              /\ elements' = elements
              /\ history' = history
              /\ pushes' = pushes]_vars

-----------------------------------------------------------------------------
(* the ids of the points in a collection *)
PointIds(els) == {els[i].id : i \in {j \in 1..Len(els) : IsPoint(els[j])}}

(* C12: every perpendicular bisector the tool commits references two
   distinct point ids, and both are ids of points of the collection at the
   time of the commit, whatever clicks, tool switches, undo and redo came
   before. *)
C12_BisectorEndpointsPresent ==
    [][lastOp' = <<"perpendicular_bisector", "addElement",
                   "completeConstruction">> =>
          LET b == elements'[Len(elements')]
          IN  /\ b.p1Id # b.p2Id
              /\ b.p1Id \in PointIds(elements)
              /\ b.p2Id \in PointIds(elements)]_vars

-----------------------------------------------------------------------------
(* the pending construction holds a start point made by the first click *)
StagedIsNew ==
    /\ isDrawing
    /\ tempData # Undefined
    /\ (tempData.p1IsNew \/ tempData.centerIsNew)

StagedNewPoint == IF tempData.p1IsNew THEN tempData.p1 ELSE tempData.center

(* the ids of the points of the collection and of every history snapshot *)
AllPointIds ==
    PointIds(elements)
    \cup UNION {PointIds(history[k]) : k \in 1..Len(history)}

(* C13: a point staged as new by the first click of the line or circle tool
   is in neither the collection nor any history snapshot while the
   construction is pending; a point id enters the collection or the history
   only freshly generated or with the commit of the batch that staged it,
   so the point of an abandoned construction never appears. *)
C13_StagedPointAbsent ==
    /\ [](StagedIsNew => StagedNewPoint.id \notin AllPointIds)
    /\ [][\A id \in AllPointIds' \ AllPointIds :
              \/ id >= nextId
              \/ /\ StagedIsNew
                 /\ id = StagedNewPoint.id
                 /\ lastOp' = <<selectedTool, "addElements",
                                "completeConstruction">>]_vars

(* a construction with a new start point was abandoned by a click of the
   other tool: the id generated last is nowhere *)
C13_Witness ==
    /\ lastOp \in {<<"circle", "completeConstruction">>,
                   <<"line", "completeConstruction">>}
    /\ nextId > 1
    /\ (nextId - 1) \notin AllPointIds
    /\ elements # <<>>

-----------------------------------------------------------------------------
(* Properties of the select and intersect tools *)

(* a drag is in progress: pointer-down in the select tool hit a fixed point
   and the button has not been released *)
Dragging == selectedTool = "select" /\ draggedPointId # NoId

(* the collection els with the point id at position pos and every other
   element as in the collection old *)
MovedOnly(old, els, id, pos) ==
    /\ Len(els) = Len(old)
    /\ \E i \in 1..Len(els) : els[i].id = id
    /\ \A i \in 1..Len(els) :
           IF old[i].id = id
           THEN els[i] = Merge(old[i], [x |-> pos.x, y |-> pos.y])
           ELSE els[i] = old[i]

(* C14 as stated: the release of a drag whose net displacement exceeds 0.01
   pushes exactly one history entry, in which the dragged point sits at the
   release coordinates and every other element is unchanged; the release of
   a drag at or below the threshold pushes nothing. *)
C14_DragReleaseCommits ==
    [][(Dragging /\ lastOp' # <<>> /\ lastOp'[1] = "mouseUp") =>
          IF draggedPointPos # dragOriginalPos
          THEN /\ pushes' = pushes + 1
               /\ Snapshot(historyIndex)' = elements'
               /\ MovedOnly(elements, elements', draggedPointId,
                            draggedPointPos)
          ELSE /\ pushes' = pushes
               /\ history' = history
               /\ historyIndex' = historyIndex
               /\ elements' = elements]_vars

(* C15: while a drag is in progress in the select tool, a pointer move
   changes only the transient drag position (and the pointer position it is
   taken from): the collection, the history stack, the history pointer, the
   pending construction and the rest of the drag state stay as they are. *)
C15_DragMoveIsTransient ==
    [][(Dragging /\ lastOp' = <<"mouseMove">>) =>
          /\ draggedPointPos' = mousePos'
          /\ elements' = elements
          /\ history' = history
          /\ historyIndex' = historyIndex
          /\ pushes' = pushes
          /\ canUndo' = canUndo /\ canRedo' = canRedo
          /\ draggedPointId' = draggedPointId
          /\ dragOriginalPos' = dragOriginalPos
          /\ UNCHANGED <<consVars, selectedTool, selectedElementId>>]_vars

(* a pointer move has carried the drag away from where it started *)
C15_Witness ==
    /\ Dragging
    /\ lastOp = <<"mouseMove">>
    /\ draggedPointPos # dragOriginalPos
    /\ findPoint(elements, draggedPointId) # Undefined
    /\ Pos(findPoint(elements, draggedPointId).x,
           findPoint(elements, draggedPointId).y) = dragOriginalPos

(* the derived points of a collection *)
DerivedPoints(els) ==
    {els[i] : i \in {j \in 1..Len(els) : IsPoint(els[j]) /\ ~els[j].isFixed}}

(* C17: pointer-down in the select tool starts a drag only on a point with
   isFixed = TRUE, and no pointer-down, pointer-move or pointer-up of the
   select tool changes the coordinates of a derived point. *)
C17_DerivedPointsStay ==
    /\ [](draggedPointId # NoId =>
             \A d \in DerivedPoints(elements) : d.id # draggedPointId)
    /\ [][(lastOp' # <<>> /\ lastOp'[1] \in {"select", "mouseMove", "mouseUp"})
              => DerivedPoints(elements) \subseteq DerivedPoints(elements')]_vars

(* the pointer went down on the derived point and no drag began, after a
   drag of a fixed point was committed *)
C17_Witness ==
    /\ lastOp = <<"select", "mouseDown">>
    /\ draggedPointId = NoId
    /\ \E d \in DerivedPoints(elements) : Pos(d.x, d.y) = mousePos
    /\ pushes > 3

(* every point of the collection and of every history snapshot *)
AllPoints ==
    {elements[i] : i \in {j \in 1..Len(elements) : IsPoint(elements[j])}}
    \cup UNION {{history[k][i] :
                    i \in {j \in 1..Len(history[k]) : IsPoint(history[k][j])}} :
                k \in 1..Len(history)}

(* C16: a point with isFixed = FALSE enters the collection only by a click
   of the intersect tool; a point the point tool (or the line and circle
   tools, which share its construction) makes has isFixed = TRUE; and no
   step changes the isFixed flag of a point id. *)
C16_DerivedOnlyByIntersect ==
    /\ [](\A a \in AllPoints : \A b \in AllPoints :
             a.id = b.id => a.isFixed = b.isFixed)
    /\ [][\A a \in AllPoints' :
              /\ (\A b \in AllPoints : b.id # a.id) =>
                     IF a.isFixed
                     THEN lastOp'[1] \in {"point", "line", "circle"}
                     ELSE lastOp' = <<"intersect", "addElement">>
              /\ \A b \in AllPoints : b.id = a.id => b.isFixed = a.isFixed]_vars

(* the collection holds a derived point made by an intersect click and a
   fixed point made by the point tool *)
C16_Witness ==
    /\ \E i \in 1..Len(elements) :
           /\ IsPoint(elements[i])
           /\ ~elements[i].isFixed
           /\ i > Len(Scene)
    /\ \E i \in 1..Len(elements) :
           /\ IsPoint(elements[i])
           /\ elements[i].isFixed
           /\ i > Len(Scene)

(* a candidate of the preview is highlighted *)
Highlighted == previewIntersections # <<>> /\ hoveredIntersectionIndex # NoIndex

Candidate == previewIntersections[hoveredIntersectionIndex]

(* a point of the collection lies within 1.5 / zoom of the candidate *)
CandidateOccupied ==
    \E i \in 1..Len(elements) :
        /\ IsPoint(elements[i])
        /\ Within(elements[i].x - Candidate.x, elements[i].y - Candidate.y,
                  15, zoom)

(* C18: a click of the intersect tool while a candidate is highlighted adds
   exactly one point with isFixed = FALSE at the candidate's coordinates as
   one history entry, unless a point already lies within tolerance of the
   candidate, and then nothing is added or pushed; a click with no
   highlighted candidate changes nothing; the tool stays the intersect tool
   and no pending construction is entered. *)
C18_IntersectClick ==
    [][(selectedTool = "intersect" /\ lastOp' # <<>>
        /\ lastOp'[1] = "intersect") =>
          /\ selectedTool' = "intersect"
          /\ UNCHANGED consVars
          /\ IF Highlighted /\ ~CandidateOccupied
             THEN /\ Len(elements') = Len(elements) + 1
                  /\ SubSeq(elements', 1, Len(elements)) = elements
                  /\ IsPoint(elements'[Len(elements')])
                  /\ ~elements'[Len(elements')].isFixed
                  /\ elements'[Len(elements')].x = Candidate.x
                  /\ elements'[Len(elements')].y = Candidate.y
                  /\ pushes' = pushes + 1
                  /\ Snapshot(historyIndex)' = elements'
             ELSE /\ elements' = elements
                  /\ history' = history
                  /\ historyIndex' = historyIndex
                  /\ pushes' = pushes]_vars

(* the click added the derived point on the crossing of the two lines *)
C18_Witness ==
    /\ lastOp = <<"intersect", "addElement">>
    /\ ~elements[Len(elements)].isFixed
    /\ Highlighted
    /\ CandidateOccupied

-----------------------------------------------------------------------------
(* the points of the collection closer to the cursor than the snap radius *)
InSnapRadius ==
    {i \in 1..Len(elements) :
        /\ IsPoint(elements[i])
        /\ Within(elements[i].x - mousePos.x, elements[i].y - mousePos.y,
                  SnapRadius * 10, zoom)}

(* C19 as stated: after a pointer move, the snap target is the position of
   the point nearest to the cursor among the points closer than
   15 / zoom, and there is no target when no point is that close. *)
C19_SnapsToNearest ==
    lastOp = <<"mouseMove">> =>
        IF InSnapRadius = {} THEN snapTarget = Undefined
        ELSE \E i \in InSnapRadius :
                /\ snapTarget = Pos(elements[i].x, elements[i].y)
                /\ \A j \in InSnapRadius :
                       Dist2(elements[i], mousePos.x, mousePos.y)
                           <= Dist2(elements[j], mousePos.x, mousePos.y)

(* C20: in every state reached through tool commits, delete, undo and redo,
   no two elements of the live collection share an id. *)
C20_UniqueIds ==
    \A i \in 1..Len(elements) : \A j \in 1..Len(elements) :
        elements[i].id = elements[j].id => i = j

(* several elements are left after a delete that followed a commit of the
   line tool *)
C20_Witness ==
    /\ Len(elements) >= 2
    /\ lastOp = <<"delete", "removeElement", "setSelectedTool">>
    /\ nextId > Len(elements) + 2

-----------------------------------------------------------------------------
(* Frame conditions of the store *)

(* new is old without the elements of the given id, the others unchanged
   and in the same order *)
WithoutId(old, new, id) ==
    LET keep == {i \in 1..Len(old) : old[i].id # id}
        nth(n) == CHOOSE i \in keep :
                      Cardinality({j \in keep : j < i}) = n - 1
    IN  /\ Len(new) = Cardinality(keep)
        /\ \A n \in 1..Len(new) : new[n] = old[nth(n)]

(* C21: removeElement(id) removes exactly the element of that id and leaves
   every other element unchanged and in the same order, the lines that
   reference a removed point included. *)
C21_RemoveElementFrame ==
    [][lastOp' = <<"api", "removeElement">> =>
          \E id \in ApiIds : WithoutId(elements, elements', id)]_vars

(* a point was removed and the line that ends on it is still there *)
C21_Witness ==
    /\ lastOp = <<"api", "removeElement">>
    /\ \E i \in 1..Len(elements) :
           /\ elements[i].type = "line"
           /\ elements[i].p1Id \in ApiIds
           /\ \A j \in 1..Len(elements) : elements[j].id # elements[i].p1Id

(* C22: undo with the pointer at 0 and redo with the pointer at the last
   snapshot change nothing (collection, history, pointer, canUndo, canRedo);
   otherwise undo and redo move the pointer by exactly one and make the
   snapshot at the new pointer the live collection. *)
C22_UndoRedoStep ==
    [][/\ lastOp' = <<"undo">> =>
              IF historyIndex = 0
              THEN UNCHANGED <<elements, history, historyIndex, canUndo,
                               canRedo>>
              ELSE /\ historyIndex' = historyIndex - 1
                   /\ history' = history
                   /\ elements' = history[historyIndex' + 1]
       /\ lastOp' = <<"redo">> =>
              IF historyIndex = Len(history) - 1
              THEN UNCHANGED <<elements, history, historyIndex, canUndo,
                               canRedo>>
              ELSE /\ historyIndex' = historyIndex + 1
                   /\ history' = history
                   /\ elements' = history[historyIndex' + 1]]_vars

(* redo has just moved the pointer onto the last of several snapshots *)
C22_Witness ==
    /\ lastOp = <<"redo">>
    /\ historyIndex = Len(history) - 1
    /\ Len(history) = MaxPushes + 1
    /\ canUndo

-----------------------------------------------------------------------------
(* Properties of the construction tools *)

(* a point of the collection lies within 2 / zoom of the click position *)
ClickOccupied ==
    \E i \in 1..Len(elements) :
        /\ IsPoint(elements[i])
        /\ Within(elements[i].x - ClickPos.x, elements[i].y - ClickPos.y,
                  20, zoom)

(* C23: a click of the point tool adds exactly one point with
   isFixed = TRUE at the click position as one history entry when no point
   lies within tolerance of it, and otherwise adds nothing and pushes
   nothing; the point tool never enters the pending state. *)
C23_PointClick ==
    [][(selectedTool = "point" /\ lastOp' # <<>> /\ lastOp'[1] = "point") =>
          /\ isDrawing' = isDrawing
          /\ tempData' = tempData
          /\ IF ClickOccupied
             THEN UNCHANGED <<elements, history, historyIndex, pushes>>
             ELSE /\ Len(elements') = Len(elements) + 1
                  /\ SubSeq(elements', 1, Len(elements)) = elements
                  /\ IsPoint(elements'[Len(elements')])
                  /\ elements'[Len(elements')].isFixed
                  /\ elements'[Len(elements')].x = ClickPos.x
                  /\ elements'[Len(elements')].y = ClickPos.y
                  /\ pushes' = pushes + 1
                  /\ Snapshot(historyIndex)' = elements']_vars

(* the point tool added a second point next to the first *)
C23_Witness ==
    /\ lastOp = <<"point", "addElement">>
    /\ Len(elements) >= 2
    /\ ~isDrawing

-----------------------------------------------------------------------------
(* the angle bisectors of a collection, as indices *)
AngleBisectors(els) == {i \in 1..Len(els) : els[i].type = "angle_bisector"}

(* two angle bisectors with the same vertex and unordered ray pair *)
TwinAngleBisectors(els) ==
    \E i, j \in AngleBisectors(els) :
        /\ i # j
        /\ els[i].vertexId = els[j].vertexId
        /\ {els[i].p1Id, els[i].p2Id} = {els[j].p1Id, els[j].p2Id}

(* the point with this id in the collection *)
PointOf(els, id) == els[CHOOSE i \in 1..Len(els) : els[i].id = id]

(* a first or second click of the angle bisector tool that selects a point *)
AngleStaging ==
    /\ isDrawing'
    /\ tempData' # tempData

(* C24: the angle bisector tool adds an element only on a third click, and
   only when vertex, first ray point and second ray point are three pairwise
   distinct points of the collection, no angle bisector with that vertex and
   unordered ray pair exists and the rays are not anti-parallel; every other
   click that selects nothing cancels to idle with the collection unchanged;
   the collection never holds two angle bisectors with the same vertex and
   unordered ray pair. *)
C24_AngleBisectorClick ==
    /\ [](~TwinAngleBisectors(elements))
    /\ [][(selectedTool = "angle_bisector" /\ lastOp' # <<>>
              /\ lastOp'[1] = "angle_bisector") =>
             IF elements' # elements
             THEN LET b == elements'[Len(elements')]
                  IN  /\ elements' = Append(elements, b)
                      /\ b.type = "angle_bisector"
                      /\ isDrawing
                      /\ tempData.vertex # Undefined
                      /\ tempData.p1 # Undefined
                      /\ Cardinality({b.vertexId, b.p1Id, b.p2Id}) = 3
                      /\ {b.vertexId, b.p1Id, b.p2Id} \subseteq PointIds(elements)
                      /\ ~angleBisectorExists(elements, b.vertexId, b.p1Id,
                                              b.p2Id)
                      /\ ~raysCancel(PointOf(elements, b.vertexId),
                                     PointOf(elements, b.p1Id),
                                     PointOf(elements, b.p2Id))
                      /\ ~isDrawing'
             ELSE AngleStaging \/ ~isDrawing']_vars

-----------------------------------------------------------------------------
(* the ids of the line-like elements of a collection *)
LineLikeIds(els) ==
    {els[i].id : i \in {j \in 1..Len(els) : els[j].type \in LineLike}}

(* two perpendicular lines with the same point and reference line *)
TwinPerpendicularLines(els) ==
    \E i, j \in 1..Len(els) :
        /\ i # j
        /\ els[i].type = "perpendicular_line"
        /\ els[j].type = "perpendicular_line"
        /\ els[i].pointId = els[j].pointId
        /\ els[i].referenceLineId = els[j].referenceLineId

(* C25: the perpendicular line tool commits exactly one perpendicular_line,
   as one history entry, only on a second click, when the two clicks supply
   a point and a line-like element of the collection and no perpendicular
   line with that point and reference exists; any other second click
   cancels to idle with the collection unchanged; the collection never
   holds two perpendicular lines with the same point and reference. *)
C25_PerpendicularLineClick ==
    /\ [](~TwinPerpendicularLines(elements))
    /\ [][(selectedTool = "perpendicular_line" /\ lastOp' # <<>>
              /\ lastOp'[1] = "perpendicular_line") =>
             IF elements' # elements
             THEN LET b == elements'[Len(elements')]
                  IN  /\ elements' = Append(elements, b)
                      /\ b.type = "perpendicular_line"
                      /\ pushes' = pushes + 1
                      /\ isDrawing
                      /\ ~isDrawing'
                      /\ ~perpLineExists(elements, b.pointId,
                                         b.referenceLineId)
                      /\ b.pointId \in PointIds(elements)
                      /\ b.referenceLineId \in LineLikeIds(elements)
             ELSE /\ pushes' = pushes
                  /\ (~isDrawing /\ isDrawing') \/ ~isDrawing']_vars

-----------------------------------------------------------------------------
(* no two distinct points of the collection at the same position *)
NoCoincidentPoints(els) ==
    \A i, j \in 1..Len(els) :
        (/\ i # j
         /\ IsPoint(els[i])
         /\ IsPoint(els[j])
         /\ els[i].id # els[j].id) =>
            (els[i].x # els[j].x \/ els[i].y # els[j].y)

(* C26: from a collection with no two distinct points at the same position,
   no commit of the point, line or circle tool leads to a collection with
   two distinct points at the same position. *)
C26_NoCoincidentPoints ==
    [][(/\ NoCoincidentPoints(elements)
        /\ lastOp' # <<>>
        /\ lastOp'[1] \in {"point", "line", "circle"}
        /\ elements' # elements) =>
          NoCoincidentPoints(elements')]_vars

-----------------------------------------------------------------------------
(* Properties of the label tool *)

LetterSet == {Letters[i] : i \in 1..26}

(* every label is one of the 26 letters and no two points share a label *)
LabelsDistinct(els) ==
    /\ \A i \in 1..Len(els) :
           (IsPoint(els[i]) /\ els[i].label # NoLabel) =>
               els[i].label \in LetterSet
    /\ \A i, j \in 1..Len(els) :
           (/\ i # j
            /\ IsPoint(els[i])
            /\ IsPoint(els[j])
            /\ els[i].label # NoLabel) => els[i].label # els[j].label

(* the point a click of the label tool lands on *)
LabelTarget == closestPoint(elements, mousePos.x, mousePos.y, 120, 10)

(* C27: with label clicks, commits, undo and redo interleaved, every label
   of the live collection is a single letter A-Z and no two points carry
   the same label; a label click on an unlabeled point gives it the first
   letter not in use, and nothing when all 26 letters are in use. *)
C27_Labels ==
    /\ [](LabelsDistinct(elements))
    /\ [][(/\ selectedTool = "label"
           /\ lastOp' # <<>>
           /\ lastOp'[1] = "label"
           /\ LabelTarget # Undefined
           /\ LabelTarget.label = NoLabel) =>
             elements' =
                 IF getNextLabel(usedLabels(elements)) = NoLabel
                 THEN elements
                 ELSE Relabelled(elements, LabelTarget.id,
                                 getNextLabel(usedLabels(elements)))]_vars

-----------------------------------------------------------------------------
(* Snapshots *)

(* the snapshots pushToHistory drops from the front in this step *)
Shifted == dropped' - dropped

(* C28: a snapshot stored in the history is not changed by a later operation
   on the live collection: while it stays in the stack it keeps its
   contents, and an undo or redo that moves the pointer to its index sets
   the live collection to it. *)
C28_SnapshotsKept ==
    [][/\ pushes' = pushes => history' = history
       /\ \A i \in 1..Len(history) :
              (i <= historyIndex + 1 /\ i - Shifted >= 1) =>
                  history'[i - Shifted] = history[i]
       /\ (lastOp' \in {<<"undo">>, <<"redo">>}
              /\ historyIndex' # historyIndex) =>
              elements' = history[historyIndex' + 1]]_vars

(* undo has brought back a snapshot pushed before the point it holds was
   updated and then labelled *)
C28_Witness ==
    /\ lastOp = <<"undo">>
    /\ Len(history) = 3
    /\ historyIndex = 1
    /\ elements = <<Point(1, 0, 0, TRUE)>>
    /\ history[3][1].x = 7

-----------------------------------------------------------------------------
(* Properties of findIntersections *)

SetOf(seq) == {seq[k] : k \in 1..Len(seq)}

(* findIntersections has been applied to a pair *)
Found == "a" \in DOMAIN script /\ script.a # 0

(* C29: for every two elements a and b, findIntersections(a, b) and
   findIntersections(b, a) return the same set of points, and the result is
   empty whenever a or b is a point. *)
C29_OrderIndependent ==
    Found =>
        /\ SetOf(script.ab) = SetOf(script.ba)
        /\ ("point" \in {script.els[script.a].type, script.els[script.b].type})
               => (script.ab = <<>> /\ script.ba = <<>>)

(* two circles that cross: the two calls return the same two points, in
   opposite order *)
C29_Witness ==
    /\ Found
    /\ script.via = "circleCircleIntersection"
    /\ Len(script.ab) = 2
    /\ script.ab[1] # script.ab[2]
    /\ script.ab[1] = script.ba[2]
    /\ script.ab[2] = script.ba[1]

(* C30: for every pair of non-point kinds among line, circle, perpendicular
   bisector, perpendicular line and angle bisector, findIntersections ends
   in one of the three base algorithms; no such pair falls through to the
   empty default. *)
C30_EveryPairReduces ==
    (/\ Found
     /\ "point" \notin {script.els[script.a].type, script.els[script.b].type})
        => script.via \in {"lineLineIntersection", "lineCircleIntersection",
                           "circleCircleIntersection"}

-----------------------------------------------------------------------------
(* the point ids an element refers to *)
ReferencedPointIds(el) ==
    IF el.type \in {"line", "perpendicular_bisector"}
    THEN {el.p1Id, el.p2Id}
    ELSE IF el.type = "circle" THEN {el.centerId, el.radiusPointId}
    ELSE IF el.type = "perpendicular_line" THEN {el.pointId}
    ELSE IF el.type = "angle_bisector" THEN {el.vertexId, el.p1Id, el.p2Id}
    ELSE {}

MissingPoint(els, el) ==
    \E id \in ReferencedPointIds(el) : id \notin PointIds(els)

(* a line or bisector whose two defining points are at the same place *)
ZeroLength(els, el) ==
    /\ el.type \in {"line", "perpendicular_bisector"}
    /\ ~MissingPoint(els, el)
    /\ findPoint(els, el.p1Id).x = findPoint(els, el.p2Id).x
    /\ findPoint(els, el.p1Id).y = findPoint(els, el.p2Id).y

(* an element that refers to an absent point, a perpendicular line whose
   reference is absent, refers to an absent point or has zero length, or a
   line or bisector of zero length *)
Degenerate(els, el) ==
    \/ MissingPoint(els, el)
    \/ ZeroLength(els, el)
    \/ /\ el.type = "perpendicular_line"
       /\ LET refEl == findElement(els, el.referenceLineId)
          IN  \/ refEl = Undefined
              \/ MissingPoint(els, refEl)
              \/ ZeroLength(els, refEl)

(* the direction from the first to the second point of a derived line *)
Direction(l) == <<l.p2.x - l.p1.x, l.p2.y - l.p1.y>>

(* the derived line l, in units of 1 / 2, passes through the point *)
PassesThrough(l, point) ==
    Cross(2 * point.x - l.p1.x, 2 * point.y - l.p1.y,
          Direction(l)[1], Direction(l)[2]) = 0

Perpendicular(l, m) ==
    Dot(Direction(l)[1], Direction(l)[2], Direction(m)[1], Direction(m)[2]) = 0

(* C31: the line derived for a perpendicular line L passes through L's
   point and is perpendicular to its reference R when R is a line or a
   perpendicular bisector, and also when R is a perpendicular line whose
   own reference is a line or a perpendicular bisector (the points of L
   and of R being present and R having a direction); when the reference
   of R is again a perpendicular line no line is derived and the
   intersections of L are empty. *)
C31_PerpendicularDirection ==
    (Found /\ script.els[script.a].type = "perpendicular_line") =>
        LET L == script.els[script.a]
            R == findElement(script.els, L.referenceLineId)
            RR == findElement(script.els, R.referenceLineId)
            derived == getPerpLinePoints(script.els, L)
        IN  IF /\ findPoint(script.els, L.pointId) # Undefined
               /\ \/ R.type \in {"line", "perpendicular_bisector"}
                  \/ (R.type = "perpendicular_line"
                      /\ RR.type \in {"line", "perpendicular_bisector"})
               /\ ~Degenerate(script.els, L)
               /\ syntheticLine(script.els, R) # NoLine
            THEN /\ derived # NoLine
                 /\ PassesThrough(derived, findPoint(script.els, L.pointId))
                 /\ Perpendicular(derived, syntheticLine(script.els, R))
            ELSE /\ derived = NoLine
                 /\ script.ab = <<>>

-----------------------------------------------------------------------------
(* the pair that findIntersections was applied to is a pair of circles
   whose four defining points exist *)
CirclePair ==
    /\ Found
    /\ script.els[script.a].type = "circle"
    /\ script.els[script.b].type = "circle"
    /\ \A c \in {script.els[script.a], script.els[script.b]} :
          /\ findPoint(script.els, c.centerId) # Undefined
          /\ findPoint(script.els, c.radiusPointId) # Undefined

(* squared radius of a circle and squared distance between two centers *)
RadiusSquared(els, c) ==
    Dist2(findPoint(els, c.centerId),
          findPoint(els, c.radiusPointId).x, findPoint(els, c.radiusPointId).y)

CenterDistanceSquared(els, c1, c2) ==
    Dist2(findPoint(els, c1.centerId),
          findPoint(els, c2.centerId).x, findPoint(els, c2.centerId).y)

(* dist > r1 + r2 or dist < |r1 - r2| for the pair of the script *)
ApartOrNested ==
    LET c1 == script.els[script.a]
        c2 == script.els[script.b]
        D == CenterDistanceSquared(script.els, c1, c2)
        R1 == RadiusSquared(script.els, c1)
        R2 == RadiusSquared(script.els, c2)
    IN  TooFar(D, R1, R2) \/ Inside(D, R1, R2)

CoincidentCenters ==
    CenterDistanceSquared(script.els, script.els[script.a],
                          script.els[script.b]) = 0

(* C32 as stated: for every pair of circles whose four defining points
   exist, the result is empty exactly when dist > r1 + r2 or
   dist < |r1 - r2|, and has exactly two points in every other case. *)
C32_EmptyIffApartOrNested ==
    CirclePair =>
        /\ (script.ab = <<>>) <=> ApartOrNested
        /\ (~ApartOrNested) => Len(script.ab) = 2

(* C32 amended: the result is empty exactly when dist > r1 + r2,
   dist < |r1 - r2| or the centers coincide, and has exactly two points in
   every other case. *)
C32_EmptyIffApartNestedOrCoincident ==
    CirclePair =>
        /\ (script.ab = <<>>) <=> (ApartOrNested \/ CoincidentCenters)
        /\ (~(ApartOrNested \/ CoincidentCenters)) => Len(script.ab) = 2

(* two different circles with the same center and the same radius gave an
   empty result *)
C32_Witness ==
    /\ CirclePair
    /\ script.a # script.b
    /\ CoincidentCenters
    /\ ~ApartOrNested
    /\ script.ab = <<>>

-----------------------------------------------------------------------------
(* C33: findIntersections returns an empty result, in either order of
   its two elements, whenever one of them refers to an absent point, is a
   perpendicular line whose reference is absent or refers to an absent
   point, or is (or is drawn on) a line whose two defining points
   coincide. *)
C33_DegenerateIsEmpty ==
    (/\ Found
     /\ \/ Degenerate(script.els, script.els[script.a])
        \/ Degenerate(script.els, script.els[script.b]))
    => (script.ab = <<>> /\ script.ba = <<>>)

(* a perpendicular line whose point is absent was intersected with a line
   whose points are present, and a zero-length line with a circle *)
C33_Witness ==
    /\ Found
    /\ script.ab = <<>>
    /\ script.els[script.a].type = "perpendicular_line"
    /\ MissingPoint(script.els, script.els[script.a])
    /\ script.els[script.b].type = "line"
    /\ ~Degenerate(script.els, script.els[script.b])

-----------------------------------------------------------------------------
(* the pair that findIntersections was applied to is a pair of lines whose
   four defining points exist *)
LinePair ==
    /\ Found
    /\ script.els[script.a].type = "line"
    /\ script.els[script.b].type = "line"
    /\ ~MissingPoint(script.els, script.els[script.a])
    /\ ~MissingPoint(script.els, script.els[script.b])

(* the determinant of the direction vectors of two lines *)
Determinant(els, l1, l2) ==
    Cross(findPoint(els, l1.p2Id).x - findPoint(els, l1.p1Id).x,
          findPoint(els, l1.p2Id).y - findPoint(els, l1.p1Id).y,
          findPoint(els, l2.p2Id).x - findPoint(els, l2.p1Id).x,
          findPoint(els, l2.p2Id).y - findPoint(els, l2.p1Id).y)

(* the side of the infinite line through the points of l on which the
   place (x, y) lies: zero on the line *)
Side(els, l, x, y) ==
    Cross(x - findPoint(els, l.p1Id).x, y - findPoint(els, l.p1Id).y,
          findPoint(els, l.p2Id).x - findPoint(els, l.p1Id).x,
          findPoint(els, l.p2Id).y - findPoint(els, l.p1Id).y)

(* a result lies on the line: exactly when its coordinates are whole, and
   otherwise the line crosses the unit square that holds the result *)
LiesOn(els, l, pt) ==
    IF pt.exact THEN Side(els, l, pt.x, pt.y) = 0
    ELSE LET sides == {Side(els, l, pt.x + i, pt.y + j) : i, j \in {0, 1}}
         IN  (\E v \in sides : v <= 0) /\ (\E v \in sides : v >= 0)

(* C34: for two lines whose four defining points exist,
   lineLineIntersection returns the empty result when the determinant of
   the two direction vectors is zero and exactly one point, lying on both
   infinite lines, otherwise. *)
C34_LineLine ==
    LinePair =>
        LET l1 == script.els[script.a]
            l2 == script.els[script.b]
        IN  IF Determinant(script.els, l1, l2) = 0
            THEN script.ab = <<>>
            ELSE /\ Len(script.ab) = 1
                 /\ LiesOn(script.els, l1, script.ab[1])
                 /\ LiesOn(script.els, l2, script.ab[1])

(* two lines of different directions met in a point with whole
   coordinates *)
C34_Witness ==
    /\ LinePair
    /\ Determinant(script.els, script.els[script.a],
                   script.els[script.b]) # 0
    /\ Len(script.ab) = 1
    /\ script.ab[1].exact
    /\ script.ab[1].x # 0

-----------------------------------------------------------------------------
(* C35: after any sequence of addElement, addElements, updateElement,
   removeElement, clearCanvas, undo, redo and label-tool clicks the live
   collection equals the snapshot at the history pointer. *)
C35_LiveEqualsSnapshot == elements = Snapshot(historyIndex)

-----------------------------------------------------------------------------
(* C36: right after every commit of the line or circle tool both point ids
   of the new line or circle are ids of points of the collection, whatever
   undo, redo or delete came between the first and the second click. *)
C36_CommittedEndpointsPresent ==
    [][(\E tool \in {"line", "circle"} :
           lastOp' = <<tool, "addElements", "completeConstruction">>) =>
          ReferencedPointIds(elements'[Len(elements')])
              \subseteq PointIds(elements')]_vars

-----------------------------------------------------------------------------
(* the ids held by the pending payload *)
StagedIds == {tempData.p1Id, tempData.centerId} \ {NoId}

(* an element that is the staged point or refers to it *)
BuiltFromPayload(el) ==
    el.id \in StagedIds \/ ReferencedPointIds(el) \cap StagedIds # {}

(* C37: when the tool is changed while a construction of the line tool is
   pending, a click in the new tool adds no element that is the staged
   point or refers to it. *)
C37_PayloadStaysWithTool ==
    [][(/\ staged.phase = "open"
        /\ isDrawing
        /\ selectedTool # staged.tool
        /\ lastOp' # <<>>
        /\ lastOp'[1] = selectedTool) =>
          \A i \in (Len(elements) + 1)..Len(elements') :
              ~BuiltFromPayload(elements'[i])]_vars

-----------------------------------------------------------------------------
(* C38: in every reachable state canUndo is true exactly when the history
   pointer is above 0 and canRedo is true exactly when the pointer is below
   the index of the last snapshot. *)
C38_FlagsMatchPointer ==
    /\ canUndo <=> historyIndex > 0
    /\ canRedo <=> historyIndex < Len(history) - 1

(* an undo has left the pointer strictly between the first and the last
   snapshot: both flags are true *)
C38_Witness ==
    /\ lastOp = <<"undo">>
    /\ historyIndex = 1
    /\ Len(history) = 3
    /\ canUndo
    /\ canRedo

-----------------------------------------------------------------------------
(* C39: every snapshot pushed onto the history differs from the snapshot
   directly below it, and every undo that moves the pointer changes the
   collection. *)
C39_NoIdleEntries ==
    [][/\ pushes' # pushes =>
              Snapshot(historyIndex)' # history'[historyIndex']
       /\ (lastOp' = <<"undo">> /\ historyIndex' # historyIndex) =>
              elements' # elements]_vars

-----------------------------------------------------------------------------
(* the place (x, y) is an intersection of two different non-point elements
   of the collection *)
IsIntersectionOf(els, x, y) ==
    \E i, j \in 1..Len(els) :
        /\ i # j
        /\ ~IsPoint(els[i])
        /\ ~IsPoint(els[j])
        /\ \E k \in DOMAIN findIntersections(els, els[i], els[j]) :
              /\ findIntersections(els, els[i], els[j])[k].x = x
              /\ findIntersections(els, els[i], els[j])[k].y = y

(* C40: every derived point an intersect click adds lies on an
   intersection of two non-point elements that are in the collection at
   the moment of the click, whatever undo, redo or delete came between the
   pointer move that computed the candidates and the click. *)
C40_DerivedPointOnIntersection ==
    [][lastOp' = <<"intersect", "addElement">> =>
          IsIntersectionOf(elements, elements'[Len(elements')].x,
                           elements'[Len(elements')].y)]_vars

====
